---- MODULE Spec2Model ----
(***************************************************************************)
(* The straight-forward (linear scan) register allocator of maglev, its    *)
(* post-dominating-hole pass, and the moves the code generator emits at    *)
(* unconditional control nodes.                                            *)
(*                                                                         *)
(* The input graph is drawn lazily: the control-flow skeleton is fixed in  *)
(* Init, and each node's inputs, policies, properties and the use          *)
(* positions of the value it defines (next_use, live_range().end) are      *)
(* chosen when the allocator reaches it.  A value is named by the id of    *)
(* the node defining it; id 0 is nullptr / kInvalidNodeId.                 *)
(***************************************************************************)
EXTENDS Integers, Sequences, FiniteSets, TLC

\* ------------------------------------------------------------------ bounds
\* Size of the register file the model allocates over.
kAllocatableGeneralRegisterCount == 2
\* Number of nodes of the single block of the straight-line graph.
StraightLen == 3
\* Number of nodes of every non-empty block of the branching graphs.
BlockLen == 1
\* Most inputs a node has.
MaxInputs == 2
\* Most temporaries a node asks for.
MaxTemporaries == 1
\* Most phis the merge block has.
MaxPhis == 1
MaxMergePhis == 2
\* Number of caller-provided (negative) stack slots.
MaxFixedSlots == 1
\* Number of nodes of the entry block of the three-predecessor graph.
ThreeWayLen == 2

\* ------------------------------------------------------------ basic values
Regs == 0 .. (kAllocatableGeneralRegisterCount - 1)
no_reg == -1
nullslot == -99
nullnode == 0

RegisterOperand(i) == [kind |-> "REGISTER", index |-> i]
StackSlotOperand(s) == [kind |-> "STACK_SLOT", index |-> s]
InvalidOperand == [kind |-> "INVALID", index |-> 0]
IsRegister(op) == op.kind = "REGISTER"
IsStackSlot(op) == op.kind = "STACK_SLOT"

\* LiveNodeInfo, as MakeLive builds it.
LiveNodeInfo(last, next) ==
  [last_use |-> last, next_use |-> next, stack_slot |-> nullslot, reg |-> no_reg]

\* LiveNodeInfo::allocation(): the register if there is one, else the slot.
allocation(info) ==
  IF info.reg # no_reg THEN RegisterOperand(info.reg)
  ELSE IF info.stack_slot # nullslot THEN StackSlotOperand(info.stack_slot)
  ELSE InvalidOperand

\* ------------------------------------------------------------------ graphs
Block(n, p, c, t, f, pid, e, hs, pcount) ==
  [nodes |-> n, phis |-> p, ctrl |-> c, target |-> t, if_false |-> f,
   predecessor_id |-> pid, is_empty |-> e, has_state |-> hs,
   predecessor_count |-> pcount]

\* B1: nodes; Return.
StraightGraph ==
  [name |-> "straight",
   blocks |-> << Block(StraightLen, 0, "Return", 0, 0, 0, FALSE, FALSE, 0) >>,
   dom |-> { <<1, 1>> },
   temps |-> MaxTemporaries, props |-> {"call", "deopt"}]

\* B1: cond -> B2 (fallthrough) / B3; B2: Jump -> B4; B3: Jump -> B4; B4: Return.
DiamondGraph(p) ==
  [name |-> "diamond",
   blocks |-> << Block(BlockLen, 0, "Conditional", 2, 3, 0, FALSE, FALSE, 0),
                 Block(BlockLen, 0, "Jump", 4, 0, 0, FALSE, FALSE, 0),
                 Block(BlockLen, 0, "Jump", 4, 0, 1, FALSE, TRUE, 1),
                 Block(0, p, "Return", 0, 0, 0, FALSE, TRUE, 2) >>,
   dom |-> { <<1, 1>>, <<1, 2>>, <<1, 3>>, <<1, 4>>, <<2, 2>>, <<3, 3>>, <<4, 4>> },
   temps |-> 0, props |-> {"call"}]

\* As the diamond, but the conditional's false target B3 is an empty block.
EmptyBlockGraph(p) ==
  [name |-> "emptyblock",
   blocks |-> << Block(BlockLen, 0, "Conditional", 2, 3, 0, FALSE, FALSE, 0),
                 Block(BlockLen, 0, "Jump", 4, 0, 0, FALSE, FALSE, 0),
                 Block(0, 0, "Jump", 4, 0, 1, TRUE, FALSE, 0),
                 Block(0, p, "Return", 0, 0, 0, FALSE, TRUE, 2) >>,
   dom |-> { <<1, 1>>, <<1, 2>>, <<1, 3>>, <<1, 4>>, <<2, 2>>, <<3, 3>>, <<4, 4>> },
   temps |-> 0, props |-> {"call"}]

\* B1: Jump -> B2; B2 (loop header): cond -> B3 (fallthrough) / B4;
\* B3: JumpLoop -> B2; B4: Return.
LoopGraph(p) ==
  [name |-> "loop",
   blocks |-> << Block(BlockLen, 0, "Jump", 2, 0, 0, FALSE, FALSE, 0),
                 Block(0, p, "Conditional", 3, 4, 0, FALSE, TRUE, 2),
                 Block(BlockLen, 0, "JumpLoop", 2, 0, 1, FALSE, FALSE, 0),
                 Block(0, 0, "Return", 0, 0, 0, FALSE, TRUE, 1) >>,
   dom |-> { <<1, 1>>, <<1, 2>>, <<1, 3>>, <<1, 4>>, <<2, 2>>, <<2, 3>>, <<2, 4>>,
             <<3, 3>>, <<4, 4>> },
   temps |-> 0, props |-> {"call"}]

Graphs ==
  {StraightGraph, DiamondGraph(0), DiamondGraph(MaxPhis), EmptyBlockGraph(MaxPhis),
   LoopGraph(MaxPhis)}

\* The diamond with MaxMergePhis phis at the merge block and nodes that may
\* call or deopt.
TwoPhiGraph ==
  [DiamondGraph(MaxMergePhis) EXCEPT !.name = "twophis", !.props = {"call", "deopt"}]

\* B1: cond -> B2 (fallthrough) / B5; B2: cond -> B3 (fallthrough) / B4;
\* B3: Jump -> B6; B4, B5: empty blocks jumping to B6; B6: Return.  B6 has
\* three predecessors.
ThreeWayGraph ==
  [name |-> "threeway",
   blocks |-> << Block(ThreeWayLen, 0, "Conditional", 2, 5, 0, FALSE, FALSE, 0),
                 Block(0, 0, "Conditional", 3, 4, 0, FALSE, FALSE, 0),
                 Block(0, 0, "Jump", 6, 0, 2, FALSE, FALSE, 0),
                 Block(0, 0, "Jump", 6, 0, 1, TRUE, FALSE, 0),
                 Block(0, 0, "Jump", 6, 0, 0, TRUE, FALSE, 0),
                 Block(BlockLen, 0, "Return", 0, 0, 0, FALSE, TRUE, 3) >>,
   dom |-> { <<1, 1>>, <<1, 2>>, <<1, 3>>, <<1, 4>>, <<1, 5>>, <<1, 6>>,
             <<2, 2>>, <<2, 3>>, <<2, 4>>, <<3, 3>>, <<4, 4>>, <<5, 5>>, <<6, 6>> },
   temps |-> 0, props |-> {"call"}]

BlockSize(b) == b.phis + b.nodes + 1

RECURSIVE first_id(_, _)
\* BasicBlock::first_id(): ids are handed out in block order, phis first.
first_id(g, b) ==
  IF b = 1 THEN 1 ELSE first_id(g, b - 1) + BlockSize(g.blocks[b - 1])

\* Gap moves carry no id, so the first non-gap-move id is the first id.
FirstNonGapMoveId(g, b) == first_id(g, b)
first_node_id(g, b) == first_id(g, b) + g.blocks[b].phis
control_id(g, b) == first_node_id(g, b) + g.blocks[b].nodes
MaxId(g) == control_id(g, Len(g.blocks))
BlockOf(g, id) ==
  CHOOSE b \in 1 .. Len(g.blocks) : first_id(g, b) <= id /\ id <= control_id(g, b)
IsPhiId(g, id) == id < first_node_id(g, BlockOf(g, id))
IsControlId(g, id) == id = control_id(g, BlockOf(g, id))
IsUnconditional(c) == c \in {"Jump", "JumpLoop"}

\* ---------------------------------------------------- allocator primitives
\* The allocator's fields travel in a record a:
\*   regs   register_values_: register index -> value held (nullnode if empty)
\*   vals   values_: value -> LiveNodeInfo, for the values in the table
\*   free   free_slots_, head first
\*   top    top_of_stack_
\*   marks  the nodes marked spilled by ValueNode::Spill, as <<value, slot>>
\*   moves  the gap moves inserted before the current node, in order
\*   regC, slotC  what each register / stack slot holds when the generated
\*          code reaches the current node; slotW[s] is the id of the
\*          definition whose spill store wrote slot s last
\*   failed the debug checks that have failed
\*   merges the calls of MergeRegisterValues so far, as <<target, predecessor id>>
Upd(f, k, v) == [x \in DOMAIN f \cup {k} |-> IF x = k THEN v ELSE f[x]]
Get(f, k) == IF k \in DOMAIN f THEN f[k] ELSE nullnode
Erase(f, k) == [x \in DOMAIN f \ {k} |-> f[x]]

Fail(a, what) == [a EXCEPT !.failed = @ \cup {what}]

Content(a, op) ==
  IF IsRegister(op) THEN a.regC[op.index]
  ELSE IF IsStackSlot(op) THEN Get(a.slotC, op.index)
  ELSE nullnode

WriteLoc(a, op, v) ==
  IF IsRegister(op) THEN [a EXCEPT !.regC[op.index] = v]
  ELSE IF IsStackSlot(op) THEN [a EXCEPT !.slotC = Upd(@, op.index, v)]
  ELSE a

\* The code generator stores a spilled node's result to its spill slot right
\* after the node: the store is in the code at the definition, wherever in the
\* walk the allocator decided to spill.
StoreAtDefinition(a, v, s) ==
  IF v > Get(a.slotW, s)
  THEN [a EXCEPT !.slotC = Upd(@, s, v), !.slotW = Upd(@, s, v)]
  ELSE a

AddMoveBeforeCurrentNode(a, source, target) ==
  [WriteLoc(a, target, Content(a, source)) EXCEPT
     !.moves = Append(@, <<source, target>>)]

\* AllocateSpillSlot handing out the free-list's first slot and leaving it on
\* the list.
AllocateSpillSlotKeepingFreeSlot(a, v) ==
  LET a0 == IF a.vals[v].stack_slot # nullslot THEN Fail(a, "AllocateSpillSlot") ELSE a
  IN IF a0.free = <<>>
     THEN [a0 EXCEPT !.vals[v].stack_slot = a0.top, !.top = @ + 1]
     ELSE [a0 EXCEPT !.vals[v].stack_slot = Head(a0.free)]

\* AllocateSpillSlot handing out a new slot without bumping top_of_stack_.
AllocateSpillSlotWithoutBump(a, v) ==
  LET a0 == IF a.vals[v].stack_slot # nullslot THEN Fail(a, "AllocateSpillSlot") ELSE a
  IN IF a0.free = <<>>
     THEN [a0 EXCEPT !.vals[v].stack_slot = a0.top]
     ELSE [a0 EXCEPT !.vals[v].stack_slot = Head(a0.free), !.free = Tail(@)]

AllocateSpillSlot(a, v) ==
  LET a0 == IF a.vals[v].stack_slot # nullslot THEN Fail(a, "AllocateSpillSlot") ELSE a
  IN IF a0.free = <<>>
     THEN [a0 EXCEPT !.vals[v].stack_slot = a0.top, !.top = @ + 1]
     ELSE [a0 EXCEPT !.vals[v].stack_slot = Head(a0.free), !.free = Tail(@)]

\* Spill marking the node spilled also when its record already has a slot.
SpillMarkingSlotOwners(a, v) ==
  IF a.vals[v].stack_slot # nullslot
  THEN [a EXCEPT !.marks = @ \cup {<<v, a.vals[v].stack_slot>>}]
  ELSE LET a1 == AllocateSpillSlot(a, v)
           s == a1.vals[v].stack_slot
       IN StoreAtDefinition([a1 EXCEPT !.marks = @ \cup {<<v, s>>}], v, s)

\* Spill without the early return for a record that already has a slot.
SpillAgain(a, v) ==
  LET a1 == AllocateSpillSlot(a, v)
      s == a1.vals[v].stack_slot
  IN StoreAtDefinition([a1 EXCEPT !.marks = @ \cup {<<v, s>>}], v, s)

Spill(a, v) ==
  IF a.vals[v].stack_slot # nullslot THEN a
  ELSE LET a1 == AllocateSpillSlot(a, v)
           s == a1.vals[v].stack_slot
       IN StoreAtDefinition([a1 EXCEPT !.marks = @ \cup {<<v, s>>}], v, s)

\* SetRegister writing the register file but not the record's reg field.
SetRegisterFileOnly(a, reg, v) == [a EXCEPT !.regs[reg] = v]

SetRegister(a, reg, v) ==
  LET a0 == IF a.regs[reg] # v /\ a.regs[reg] # nullnode
            THEN Fail(a, "SetRegister") ELSE a
  IN [a0 EXCEPT !.regs[reg] = v, !.vals[v].reg = reg]

DoAllocate(a, reg, v) == SetRegister(a, reg, v)

\* The registers other than skip that hold v / that are empty.
HoldersOf(a, v, skip) == {i \in DOMAIN a.regs : i # skip /\ a.regs[i] = v}
EmptyRegs(a, skip) == {i \in DOMAIN a.regs : i # skip /\ a.regs[i] = nullnode}
Min(S) == CHOOSE x \in S : \A y \in S : x <= y
Max(S) == CHOOSE x \in S : \A y \in S : x >= y

\* Free's try_move branch rebinding the value without emitting the gap move.
FreeTryMoveWithoutGapMove(a, reg, v) ==
  LET holders == HoldersOf(a, v, reg)
      empty == EmptyRegs(a, reg)
  IN IF holders # {} THEN [a EXCEPT !.vals[v].reg = Min(holders)]
     ELSE IF empty # {} THEN SetRegister(a, Max(empty), v)
     ELSE Spill(a, v)

\* Free with try_move: the scan returns at the first register that holds the
\* value; otherwise it keeps the last empty register it saw.
FreeTryMove(a, reg, v) ==
  LET holders == HoldersOf(a, v, reg)
      empty == EmptyRegs(a, reg)
  IN IF holders # {} THEN [a EXCEPT !.vals[v].reg = Min(holders)]
     ELSE IF empty # {}
     THEN AddMoveBeforeCurrentNode(SetRegister(a, Max(empty), v),
                                   RegisterOperand(reg), RegisterOperand(Max(empty)))
     ELSE Spill(a, v)

FreeNoMove(a, reg, v) ==
  LET holders == HoldersOf(a, v, reg)
  IN IF holders # {} THEN [a EXCEPT !.vals[v].reg = Min(holders)]
     ELSE Spill(a, v)

Free(a, reg, try_move) ==
  LET v == a.regs[reg] IN
  IF v = nullnode THEN a
  ELSE LET a1 == [a EXCEPT !.regs[reg] = nullnode] IN
       IF reg # a.vals[v].reg
       THEN IF a.vals[v].reg = no_reg \/ a1.regs[a.vals[v].reg] # v
            THEN Fail(a1, "Free") ELSE a1
       ELSE LET a2 == [a1 EXCEPT !.vals[v].reg = no_reg] IN
            IF a2.vals[v].stack_slot # nullslot THEN a2
            ELSE IF try_move THEN FreeTryMove(a2, reg, v)
            ELSE FreeNoMove(a2, reg, v)

\* ForceAllocate without the early return for a register that already holds
\* the record.
ForceAllocateWithoutEarlyReturn(a, reg, v, try_move) ==
  DoAllocate(Free(a, reg, try_move), reg, v)

ForceAllocate(a, reg, v, try_move) ==
  IF a.regs[reg] = v THEN a
  ELSE DoAllocate(Free(a, reg, try_move), reg, v)

\* TryAllocateRegister taking the highest empty register.
TryAllocateRegisterHighest(a, v) ==
  LET empty == {i \in Regs : a.regs[i] = nullnode}
  IN IF empty = {} THEN [a |-> a, op |-> InvalidOperand]
     ELSE [a |-> SetRegister(a, Max(empty), v), op |-> RegisterOperand(Max(empty))]

\* Returns the allocator and the operand (invalid when no register is empty).
TryAllocateRegister(a, v) ==
  LET empty == {i \in Regs : a.regs[i] = nullnode}
  IN IF empty = {} THEN [a |-> a, op |-> InvalidOperand]
     ELSE [a |-> SetRegister(a, Min(empty), v), op |-> RegisterOperand(Min(empty))]

NextUseAt(a, i) == a.vals[a.regs[i]].next_use

RECURSIVE FurthestFromLast(_, _, _)
\* The eviction scan taking the later register on equal next uses.
FurthestFromLast(a, furthest, i) ==
  IF i = kAllocatableGeneralRegisterCount THEN furthest
  ELSE FurthestFromLast(a, IF NextUseAt(a, furthest) <= NextUseAt(a, i) THEN i
                           ELSE furthest,
                        i + 1)

RECURSIVE FurthestFrom(_, _, _)
\* The eviction scan of AllocateRegister, from register i on.
FurthestFrom(a, furthest, i) ==
  IF i = kAllocatableGeneralRegisterCount THEN furthest
  ELSE FurthestFrom(a, IF NextUseAt(a, furthest) < NextUseAt(a, i) THEN i ELSE furthest,
                    i + 1)

AllocateRegister(a, v) ==
  LET try == TryAllocateRegister(a, v)
  IN IF try.op # InvalidOperand THEN try
     ELSE LET furthest == FurthestFrom(a, 0, 1)
          IN [a |-> ForceAllocate(a, furthest, v, FALSE),
              op |-> RegisterOperand(furthest)]

RECURSIVE SpillRegistersFrom(_, _)
SpillRegistersFrom(a, i) ==
  IF i = kAllocatableGeneralRegisterCount THEN a
  ELSE SpillRegistersFrom(IF a.regs[i] = nullnode THEN a ELSE Spill(a, a.regs[i]), i + 1)

\* SpillRegisters spilling nothing.
SpillNothing(a) == a

SpillRegisters(a) == SpillRegistersFrom(a, 0)

RECURSIVE SpillAndClearRegistersFrom(_, _)
SpillAndClearRegistersFrom(a, i) ==
  IF i = kAllocatableGeneralRegisterCount THEN a
  ELSE LET v == a.regs[i] IN
       SpillAndClearRegistersFrom(
         IF v = nullnode THEN a
         ELSE [Spill(a, v) EXCEPT !.vals[v].reg = no_reg, !.regs[i] = nullnode],
         i + 1)

\* SpillAndClearRegisters spilling without clearing.
SpillWithoutClearing(a) == SpillRegistersFrom(a, 0)

SpillAndClearRegisters(a) == SpillAndClearRegistersFrom(a, 0)

\* ---------------------------------------------------------- node handling
InputPolicies ==
  {[p |-> "REGISTER_OR_SLOT", r |-> 0], [p |-> "MUST_HAVE_REGISTER", r |-> 0]}
    \cup {[p |-> "FIXED_REGISTER", r |-> i] : i \in Regs}

\* AssignInput without the gap move from the record's location on entry.
AssignInputWithoutGapMove(a, v, policy) ==
  LET location == allocation(a.vals[v])
  IN CASE policy.p = "REGISTER_OR_SLOT" -> [a |-> a, op |-> location]
       [] policy.p = "FIXED_REGISTER" ->
            [a |-> ForceAllocate(a, policy.r, v, TRUE),
             op |-> RegisterOperand(policy.r)]
       [] policy.p = "MUST_HAVE_REGISTER" ->
            IF IsRegister(location) THEN [a |-> a, op |-> location]
            ELSE AllocateRegister(a, v)

\* Returns the allocator and the operand written into the input.
AssignInput(a, v, policy) ==
  LET location == allocation(a.vals[v])
      r == CASE policy.p = "REGISTER_OR_SLOT" -> [a |-> a, op |-> location]
             [] policy.p = "FIXED_REGISTER" ->
                  [a |-> ForceAllocate(a, policy.r, v, TRUE),
                   op |-> RegisterOperand(policy.r)]
             [] policy.p = "MUST_HAVE_REGISTER" ->
                  IF IsRegister(location) THEN [a |-> a, op |-> location]
                  ELSE AllocateRegister(a, v)
  IN IF location # r.op
     THEN [a |-> AddMoveBeforeCurrentNode(r.a, location, r.op), op |-> r.op]
     ELSE r

RECURSIVE ScanFurthestUse(_, _, _, _)
\* One pass of the scan inside GetFreeRegisters' eviction loop; furthest_use
\* and longest are the function's locals and outlive the pass.
ScanFurthestUse(a, i, furthest_use, longest) ==
  IF i = kAllocatableGeneralRegisterCount
  THEN [furthest_use |-> furthest_use, longest |-> longest]
  ELSE IF a.regs[i] # nullnode /\ NextUseAt(a, i) > furthest_use
       THEN ScanFurthestUse(a, i + 1, NextUseAt(a, i), i)
       ELSE ScanFurthestUse(a, i + 1, furthest_use, longest)

RECURSIVE EvictForTemporaries(_, _, _, _, _)
EvictForTemporaries(a, list, count, furthest_use, longest) ==
  IF count = 0 THEN [a |-> a, list |-> list]
  ELSE LET a0 == IF a.regs[0] = nullnode THEN Fail(a, "GetFreeRegisters") ELSE a
           sc == ScanFurthestUse(a0, 0, furthest_use, longest)
       IN IF sc.longest = -1
          THEN [a |-> Fail(a0, "GetFreeRegisters"), list |-> list]
          ELSE EvictForTemporaries(Free(a0, sc.longest, FALSE), list \cup {sc.longest},
                                   count - 1, sc.furthest_use, sc.longest)

RECURSIVE LowestN(_, _)
\* The n lowest members of S (all of S if it has fewer).
LowestN(S, n) ==
  IF n = 0 \/ S = {} THEN {} ELSE {Min(S)} \cup LowestN(S \ {Min(S)}, n - 1)

\* Returns the allocator and the register list handed to the node.
GetFreeRegisters(a, count) ==
  LET empty == {i \in Regs : a.regs[i] = nullnode}
      taken == LowestN(empty, count)
  IN IF count = 0 THEN [a |-> a, list |-> {}]
     ELSE EvictForTemporaries(a, taken, count - Cardinality(taken), 0, -1)

\* UpdateInputUseAndClearDead clearing only the register the record names.
UpdateInputUseClearingRecordReg(a, use, v, next_use_id) ==
  IF v \notin DOMAIN a.vals THEN a
  ELSE IF a.vals[v].last_use = use
  THEN LET info == a.vals[v] IN
       [a EXCEPT !.regs = [i \in Regs |-> IF a.regs[i] = v /\ i = info.reg THEN nullnode
                                          ELSE a.regs[i]],
                 !.free = IF info.stack_slot # nullslot /\ info.stack_slot > 0
                          THEN Append(@, info.stack_slot) ELSE @,
                 !.vals = Erase(@, v)]
  ELSE [a EXCEPT !.vals[v].next_use = next_use_id]

\* input.next_use_id() is next_use_id; the value's live_range().end is the
\* last_use MakeLive copied into its record.
UpdateInputUseAndClearDead(a, use, v, next_use_id) ==
  IF v \notin DOMAIN a.vals THEN a
  ELSE IF a.vals[v].last_use = use
  THEN LET info == a.vals[v] IN
       [a EXCEPT !.regs = [i \in Regs |-> IF a.regs[i] = v THEN nullnode ELSE a.regs[i]],
                 !.free = IF info.stack_slot # nullslot /\ info.stack_slot > 0
                          THEN Append(@, info.stack_slot) ELSE @,
                 !.vals = Erase(@, v)]
  ELSE [a EXCEPT !.vals[v].next_use = next_use_id]

\* The update-uses loop releasing nothing.
UpdateUsesReleasingNothing(a, use, nodes, next) == a

RECURSIVE UpdateUses(_, _, _, _)
\* for (Input& input : *node) UpdateInputUseAndClearDead(node->id(), input)
UpdateUses(a, use, nodes, next) ==
  IF nodes = <<>> THEN a
  ELSE UpdateUses(UpdateInputUseAndClearDead(a, use, Head(nodes), Get(next, Head(nodes))),
                  use, Tail(nodes), next)

MakeLive(a, v, last, next) == [a EXCEPT !.vals = Upd(@, v, LiveNodeInfo(last, next))]

\* Returns the allocator and the result operand.
AllocateNodeResult(a, v, policy, last, next) ==
  LET a1 == MakeLive(a, v, last, next) IN
  CASE policy.p = "FIXED_SLOT" ->
         [a |-> [a1 EXCEPT !.vals[v].stack_slot = policy.r],
          op |-> StackSlotOperand(policy.r)]
    [] policy.p = "FIXED_REGISTER" ->
         [a |-> ForceAllocate(a1, policy.r, v, TRUE), op |-> RegisterOperand(policy.r)]
    [] policy.p = "MUST_HAVE_REGISTER" -> AllocateRegister(a1, v)
    [] policy.p = "SAME_AS_INPUT" ->
         [a |-> ForceAllocate(a1, policy.r, v, TRUE), op |-> RegisterOperand(policy.r)]

\* ------------------------------------------------------- merge-point state
\* One RegisterState of a block's register_state(): the flags, the record it
\* points at (directly or through its RegisterMerge), and the RegisterMerge's
\* operands, indexed by predecessor id.
NoOperands == [j \in {} |-> InvalidOperand]
UninitializedState ==
  [is_initialized |-> FALSE, is_merge |-> FALSE, node |-> nullnode,
   operands |-> NoOperands]
NodeState(v) ==
  [is_initialized |-> TRUE, is_merge |-> FALSE, node |-> v, operands |-> NoOperands]
\* A RegisterMerge stored as the record alone, in the single-node encoding.
MergeStateAsNode(v, ops) ==
  [is_initialized |-> TRUE, is_merge |-> FALSE, node |-> v, operands |-> NoOperands]

MergeState(v, ops) ==
  [is_initialized |-> TRUE, is_merge |-> TRUE, node |-> v, operands |-> ops]

\* IsLiveAtTarget counting the target's first node as defined before the loop.
IsLiveAtTargetIncludingFirst(g, a, v, source, target) ==
  IF v = nullnode THEN FALSE
  ELSE IF control_id(g, target) <= source THEN v <= FirstNonGapMoveId(g, target)
  ELSE v \in DOMAIN a.vals /\ a.vals[v].last_use >= first_id(g, target)

IsLiveAtTarget(g, a, v, source, target) ==
  IF v = nullnode THEN FALSE
  ELSE IF control_id(g, target) <= source THEN v < FirstNonGapMoveId(g, target)
  ELSE v \in DOMAIN a.vals /\ a.vals[v].last_use >= first_id(g, target)

\* InitializeBranchTargetRegisterValues writing only the entries of registers
\* that hold a record live at the target.
InitializeBranchTargetLiveEntriesOnly(g, a, st, source, target) ==
  [a |-> IF st[0].is_initialized
         THEN Fail(a, "InitializeBranchTargetRegisterValues") ELSE a,
   st |-> [i \in Regs |->
             IF IsLiveAtTarget(g, a, a.regs[i], source, target)
             THEN NodeState(a.regs[i]) ELSE st[i]]]

\* InitializeBranchTargetRegisterValues copying dead records as well.
InitializeBranchTargetWithDeadRecords(g, a, st, source, target) ==
  [a |-> IF st[0].is_initialized
         THEN Fail(a, "InitializeBranchTargetRegisterValues") ELSE a,
   st |-> [i \in Regs |-> NodeState(a.regs[i])]]

\* Returns the allocator and the target's register state.
InitializeBranchTargetRegisterValues(g, a, st, source, target) ==
  [a |-> IF st[0].is_initialized
         THEN Fail(a, "InitializeBranchTargetRegisterValues") ELSE a,
   st |-> [i \in Regs |->
             NodeState(IF IsLiveAtTarget(g, a, a.regs[i], source, target)
                       THEN a.regs[i] ELSE nullnode)]]

EnsureInRegister(a, st, incoming) ==
  IF \E i \in Regs : st[i].node = incoming THEN a ELSE Fail(a, "EnsureInRegister")

\* The record's location left unset.
NodeAllocationUnset(a, node, dangling) == InvalidOperand

\* The location of the merge point's record on the incoming branch; reading a
\* record that was erased from values_ reads freed memory, and dangling is
\* what that read yields.
NodeAllocation(a, node, dangling) ==
  IF node \in DOMAIN a.vals THEN allocation(a.vals[node]) ELSE dangling

RECURSIVE MergeRegisterValuesFrom(_, _, _, _, _, _, _, _)
\* The loop of MergeRegisterValues over the registers, from register i on.
MergeRegisterValuesFrom(g, a, st, source, target, predecessor_id, dangling, i) ==
  IF i = kAllocatableGeneralRegisterCount THEN [a |-> a, st |-> st]
  ELSE
    LET node == st[i].node
        merge == st[i].is_merge
        register_info == RegisterOperand(i)
        incoming == IF IsLiveAtTarget(g, a, a.regs[i], source, target)
                    THEN a.regs[i] ELSE nullnode
        count == g.blocks[target].predecessor_count
        a0 == IF node # nullnode /\ node \notin DOMAIN a.vals /\ incoming # node
              THEN Fail(a, "use-after-free") ELSE a
        next(a1, st1) ==
          MergeRegisterValuesFrom(g, a1, st1, source, target, predecessor_id,
                                  dangling, i + 1)
    IN
    IF incoming = node
    THEN next(a, IF merge
                 THEN [st EXCEPT ![i].operands[predecessor_id] = register_info]
                 ELSE st)
    ELSE IF merge
    THEN next(IF incoming # nullnode /\ a0.vals[incoming].stack_slot # nullslot
              THEN EnsureInRegister(a0, st, incoming) ELSE a0,
              [st EXCEPT ![i].operands[predecessor_id] =
                           NodeAllocation(a, node, dangling)])
    ELSE IF node = nullnode /\ a.vals[incoming].stack_slot = nullslot
    THEN next(EnsureInRegister(a, st, incoming), st)
    ELSE LET info_so_far == IF node = nullnode
                            THEN StackSlotOperand(a.vals[incoming].stack_slot)
                            ELSE register_info
             mine == IF node = nullnode THEN register_info
                     ELSE NodeAllocation(a, node, dangling)
         IN next(a0, [st EXCEPT ![i] =
                        MergeState(IF node = nullnode THEN incoming ELSE node,
                                   [j \in 0 .. (count - 1) |->
                                      IF j = predecessor_id THEN mine
                                      ELSE info_so_far])])

\* Returns the allocator and the target's register state.
MergeRegisterValues(g, a, st, source, target, predecessor_id, dangling) ==
  LET called == [a EXCEPT !.merges = Append(@, <<target, predecessor_id>>)]
  IN IF ~st[0].is_initialized
     THEN InitializeBranchTargetRegisterValues(g, called, st, source, target)
     ELSE MergeRegisterValuesFrom(g, called, st, source, target, predecessor_id,
                                  dangling, 0)

\* Whether a merge from the current register file reads an erased record.
ReadsErased(g, a, st, source, target) ==
  /\ st[0].is_initialized
  /\ \E i \in Regs :
       /\ st[i].node # nullnode
       /\ st[i].node \notin DOMAIN a.vals
       /\ ~(IsLiveAtTarget(g, a, a.regs[i], source, target) /\ a.regs[i] = st[i].node)

\* The fall-through case clearing every register, live or dead.
ClearAllFallthroughRegisters(g, a, source, target) ==
  [a EXCEPT !.regs = [i \in Regs |-> nullnode],
            !.vals = [v \in DOMAIN a.vals |-> [a.vals[v] EXCEPT !.reg = no_reg]]]

\* The fall-through case leaving every register as it is.
KeepFallthroughRegisters(g, a, source, target) == a

\* The fall-through case of InitializeConditionalBranchRegisters.
ClearDeadFallthroughRegisters(g, a, source, target) ==
  LET dead == {i \in Regs : a.regs[i] # nullnode
                            /\ ~IsLiveAtTarget(g, a, a.regs[i], source, target)}
      a0 == IF source + 1 # first_id(g, target)
            THEN Fail(a, "InitializeConditionalBranchRegisters") ELSE a
  IN [a0 EXCEPT
        !.regs = [i \in Regs |-> IF i \in dead THEN nullnode ELSE a.regs[i]],
        !.vals = [v \in DOMAIN a.vals |->
                    IF \E i \in dead : a.regs[i] = v
                    THEN [a.vals[v] EXCEPT !.reg = no_reg] ELSE a.vals[v]]]

\* Returns the allocator and all blocks' register states (ms).
InitializeConditionalBranchRegisters(g, a, ms, source, target, dangling) ==
  IF g.blocks[target].is_empty
  THEN LET t2 == g.blocks[target].target
           r == MergeRegisterValues(g, a, ms[t2], source, t2,
                                    g.blocks[target].predecessor_id, dangling)
       IN [a |-> r.a, ms |-> [ms EXCEPT ![t2] = r.st]]
  ELSE IF g.blocks[target].has_state
  THEN LET r == InitializeBranchTargetRegisterValues(g, a, ms[target], source, target)
       IN [a |-> r.a, ms |-> [ms EXCEPT ![target] = r.st]]
  ELSE [a |-> ClearDeadFallthroughRegisters(g, a, source, target), ms |-> ms]

RECURSIVE FillRegisterValuesFrom(_, _, _)
FillRegisterValuesFrom(a, st, i) ==
  IF i = kAllocatableGeneralRegisterCount THEN a
  ELSE LET node == st[i].node IN
       FillRegisterValuesFrom(
         IF node = nullnode THEN a
         ELSE IF node \in DOMAIN a.vals
         THEN [a EXCEPT !.regs[i] = node, !.vals[node].reg = i]
         ELSE Fail([a EXCEPT !.regs[i] = node], "use-after-free"),
         st, i + 1)

\* InitializeRegisterValues leaving the records' reg fields as they were.
InitializeRegisterValuesKeepingReg(a, st) ==
  FillRegisterValuesFrom([a EXCEPT !.regs = [i \in Regs |-> nullnode]], st, 0)

\* InitializeRegisterValues filling in the target's records without clearing
\* the register file first.
InitializeRegisterValuesWithoutClearing(a, st) == FillRegisterValuesFrom(a, st, 0)

InitializeRegisterValues(a, st) ==
  LET cleared == [a EXCEPT
                    !.regs = [i \in Regs |-> nullnode],
                    !.vals = [v \in DOMAIN a.vals |->
                                IF \E i \in Regs : a.regs[i] = v
                                THEN [a.vals[v] EXCEPT !.reg = no_reg]
                                ELSE a.vals[v]]]
  IN FillRegisterValuesFrom(
       IF \E i \in Regs : ~st[i].is_initialized
       THEN Fail(cleared, "LoadMergeState") ELSE cleared, st, 0)

\* -------------------------------------------------------------------- phis
PhiId(g, b, k) == first_id(g, b) + k - 1

\* TryAllocateToInput preferring the last input whose register is empty.
TryAllocateToLastInput(a, phi, ops, count, j) ==
  LET usable == {i \in j .. (count - 1) :
                   IsRegister(ops[i]) /\ a.regs[ops[i].index] = nullnode}
  IN IF usable = {} THEN [a |-> a, op |-> InvalidOperand]
     ELSE [a |-> DoAllocate(a, ops[Max(usable)].index, phi), op |-> ops[Max(usable)]]

RECURSIVE TryAllocateToInputFrom(_, _, _, _, _)
\* Returns the allocator and the phi's result operand (invalid if none of the
\* inputs' registers is empty).  ops are the phi's input operands by
\* predecessor id; an input not yet injected is not a register.
TryAllocateToInputFrom(a, phi, ops, count, j) ==
  IF j = count THEN [a |-> a, op |-> InvalidOperand]
  ELSE IF IsRegister(ops[j]) /\ a.regs[ops[j].index] = nullnode
       THEN [a |-> DoAllocate(a, ops[j].index, phi), op |-> ops[j]]
       ELSE TryAllocateToInputFrom(a, phi, ops, count, j + 1)

RECURSIVE PhiFirstPass(_, _, _, _, _, _, _)
PhiFirstPass(g, b, a, res, pin, use, k) ==
  IF k > g.blocks[b].phis THEN [a |-> a, res |-> res]
  ELSE LET phi == PhiId(g, b, k)
           r == TryAllocateToInputFrom(MakeLive(a, phi, use[k][2], use[k][1]), phi,
                                       pin[k], g.blocks[b].predecessor_count, 0)
       IN PhiFirstPass(g, b, r.a, [res EXCEPT ![k] = r.op], pin, use, k + 1)

RECURSIVE PhiSecondPass(_, _, _, _, _)
PhiSecondPass(g, b, a, res, k) ==
  IF k > g.blocks[b].phis THEN [a |-> a, res |-> res]
  ELSE IF res[k] # InvalidOperand THEN PhiSecondPass(g, b, a, res, k + 1)
  ELSE LET r == TryAllocateRegister(a, PhiId(g, b, k))
       IN PhiSecondPass(g, b, r.a, [res EXCEPT ![k] = r.op], k + 1)

RECURSIVE PhiThirdPass(_, _, _, _, _)
PhiThirdPass(g, b, a, res, k) ==
  IF k > g.blocks[b].phis THEN [a |-> a, res |-> res]
  ELSE IF res[k] # InvalidOperand THEN PhiThirdPass(g, b, a, res, k + 1)
  ELSE LET a1 == AllocateSpillSlot(a, PhiId(g, b, k))
       IN PhiThirdPass(g, b, a1,
                       [res EXCEPT ![k] = StackSlotOperand(a1.vals[PhiId(g, b, k)].stack_slot)],
                       k + 1)

\* "Activate phis" handing out free registers before looking at the inputs.
ActivatePhisFreeRegistersFirst(g, b, a, pin, use) ==
  LET none == [k \in 1 .. g.blocks[b].phis |-> InvalidOperand]
      unseen == [k \in 1 .. g.blocks[b].phis |->
                   [j \in DOMAIN pin[k] |-> InvalidOperand]]
      p1 == PhiFirstPass(g, b, a, none, unseen, use, 1)
      p2 == PhiSecondPass(g, b, p1.a, p1.res, 1)
  IN PhiThirdPass(g, b, p2.a, p2.res, 1)

\* "Activate phis" of AllocateRegisters.  use[k] is <<next_use, last_use>> of
\* phi k.  Returns the allocator and the phis' result operands.
ActivatePhis(g, b, a, pin, use) ==
  LET none == [k \in 1 .. g.blocks[b].phis |-> InvalidOperand]
      p1 == PhiFirstPass(g, b, a, none, pin, use, 1)
      p2 == PhiSecondPass(g, b, p1.a, p1.res, 1)
  IN PhiThirdPass(g, b, p2.a, p2.res, 1)

\* ------------------------------------------------ the emitted code's moves
RECURSIVE RegisterMergeMoves(_, _, _, _)
\* "Register merge gap moves" at an unconditional control node: one move per
\* RegisterMerge entry of the target, in register order, one after the other.
RegisterMergeMoves(st, predecessor_id, a, index) ==
  IF index = kAllocatableGeneralRegisterCount THEN a
  ELSE RegisterMergeMoves(
         st, predecessor_id,
         IF st[index].is_merge
         THEN WriteLoc(a, RegisterOperand(index),
                       Content(a, st[index].operands[predecessor_id]))
         ELSE a,
         index + 1)

RECURSIVE PhiGapMoves(_, _, _, _, _, _, _, _)
\* "Phi gap moves": phi k's result is loaded from its input for this
\* predecessor.  The result then holds the phi's value if what was moved is
\* the input's value, and nothing otherwise.
PhiGapMoves(g, b, pin, pnode, pres, predecessor_id, a, k) ==
  IF k > g.blocks[b].phis THEN a
  ELSE LET moved == Content(a, pin[k][predecessor_id])
           held == IF moved = pnode[k][predecessor_id] /\ moved # nullnode
                   THEN PhiId(g, b, k) ELSE nullnode
           a1 == WriteLoc(a, pres[k], held)
       IN PhiGapMoves(g, b, pin, pnode, pres, predecessor_id,
                      IF IsStackSlot(pres[k])
                      THEN [a1 EXCEPT !.slotW = Upd(@, pres[k].index, PhiId(g, b, k))]
                      ELSE a1,
                      k + 1)

\* The blocks the code runs through to reach the end of block P.
PathBlocks(g, P) == {d \in 1 .. Len(g.blocks) : <<d, P>> \in g.dom}

\* The last definition stored to each stack slot on the way to the end of P;
\* writers are the <<value, slot>> stores in the code.
PathSlots(g, writers, P) ==
  LET on == {w \in writers : BlockOf(g, w[1]) \in PathBlocks(g, P)}
  IN [s \in {w[2] : w \in on} |-> Max({w[1] : w \in {x \in on : x[2] = s}})]

\* The machine where the code leaves block P for block b: P's registers and
\* the stack slots written on the way, then the moves emitted at P's control
\* node when it is unconditional.
MachineAtEdge(g, ms, pin, pnode, pres, sn, writers, a, P, b) ==
  LET slots == PathSlots(g, writers, P)
      left == [a EXCEPT !.regC = sn[P], !.slotC = slots, !.slotW = slots]
      pid == g.blocks[P].predecessor_id
  IN IF IsUnconditional(g.blocks[P].ctrl)
     THEN PhiGapMoves(g, b, pin[b], pnode[b], pres[b], pid,
                      RegisterMergeMoves(ms[b], pid, left, 0), 1)
     ELSE left

\* The blocks whose control node transfers to b.
Predecessors(g, b) ==
  {P \in 1 .. Len(g.blocks) :
     \/ g.blocks[P].ctrl \in {"Jump", "JumpLoop", "Conditional"} /\ g.blocks[P].target = b
     \/ g.blocks[P].ctrl = "Conditional" /\ g.blocks[P].if_false = b}

\* ------------------------------------------------- post-dominating holes
\* Control nodes are named by their block; hole is the map from a block to the
\* block of its control node's next_post_dominating_hole (0: none).
IsTargetOfNodeFallthrough(g, b, target) == control_id(g, b) + 1 = first_id(g, target)

\* NearestPostDominatingHole taking every Jump for a hole, fallthrough or not.
NearestPostDominatingHoleOfAnyJump(g, hole, b) ==
  IF g.blocks[b].ctrl = "Conditional" THEN hole[b] ELSE b

NearestPostDominatingHole(g, hole, b) ==
  IF g.blocks[b].ctrl = "Conditional" THEN hole[b]
  ELSE IF g.blocks[b].ctrl = "Jump" /\ IsTargetOfNodeFallthrough(g, b, g.blocks[b].target)
  THEN hole[b]
  ELSE b

RECURSIVE WalkBranches(_, _, _, _)
\* The while loop of ComputePostDominatingHoles: how it ends (at a merge
\* point, or broken off at a Return or JumpLoop) and with which first, second.
WalkBranches(g, hole, first, second) ==
  IF first = second THEN [broke |-> FALSE, first |-> first, second |-> second]
  ELSE LET swap == control_id(g, first) > control_id(g, second)
           f == IF swap THEN second ELSE first
           s == IF swap THEN first ELSE second
       IN IF g.blocks[f].ctrl \in {"Return", "JumpLoop"}
          THEN [broke |-> TRUE, first |-> f, second |-> s]
          ELSE WalkBranches(g, hole, hole[f], s)

\* The calls of set_next_post_dominating_hole for the conditional of block b,
\* in order: the one before the break, if taken, and the one after the loop.
ConditionalHoleStores(g, hole, b) ==
  LET w == WalkBranches(g, hole,
                        NearestPostDominatingHole(g, hole, g.blocks[b].target),
                        NearestPostDominatingHole(g, hole, g.blocks[b].if_false))
  IN IF w.broke THEN <<w.second, w.first>> ELSE <<w.first>>

RECURSIVE ComputePostDominatingHolesFrom(_, _, _)
\* for (BasicBlock* block : base::Reversed(*graph)), from block b down.
ComputePostDominatingHolesFrom(g, hole, b) ==
  IF b = 0 THEN hole
  ELSE LET B == g.blocks[b]
           stores == ConditionalHoleStores(g, hole, b)
           h == IF B.ctrl = "Jump"
                THEN [hole EXCEPT ![b] = NearestPostDominatingHole(g, hole, B.target)]
                ELSE IF B.ctrl = "Conditional"
                THEN [hole EXCEPT ![b] = stores[Len(stores)]]
                ELSE hole
       IN ComputePostDominatingHolesFrom(g, h, b - 1)

ComputePostDominatingHoles(g) ==
  ComputePostDominatingHolesFrom(g, [b \in 1 .. Len(g.blocks) |-> 0], Len(g.blocks))

\* ------------------------------------------------------------------- state
VARIABLES
  graph,            \* the graph being allocated
  blk, idx, pc,     \* block_it_, node_it_ (nodes done in the block), and the step
  register_values, values, free_slots, top_of_stack,
  marks,            \* nodes marked spilled, with their spill slot
  moves,            \* gap moves inserted before the current node
  regC, slotC, slotW,
  failed,           \* debug checks that failed
  merges,           \* the calls of MergeRegisterValues so far: target block and
                    \* predecessor id
  inputs,           \* the current node's inputs assigned so far: value, operand
  temporaries,      \* the registers handed to the current node as temporaries
  props,            \* the current node's properties: "none", "call" or "deopt"
  result,           \* the current node's result operand
  merge_state,      \* per block, its register_state()
  phi_input, phi_node, phi_result,
                    \* per block and phi: input operand and input value by
                    \* predecessor id, and the phi's result operand
  slot_results,     \* values whose result operand is a stack slot, with it
  snap,             \* per block ending in a jump: regC where the jump is reached
  stack_slots,      \* the graph's stack-slot count, -1 until it is set
  next_post_dominating_hole,
                    \* per block, the block whose control node is its control
                    \* node's next post-dominating hole (0: none)
  delivered,        \* per predecessor of a merge: the register file and the
                    \* liveness table's values when it was merged
  deopt_spilled,    \* values a deopting node's SpillRegisters gave a slot
  last              \* the step taken last

vars ==
  <<graph, blk, idx, pc, register_values, values, free_slots, top_of_stack, marks,
    moves, regC, slotC, slotW, failed, merges, inputs, temporaries, props, result,
    merge_state, phi_input, phi_node, phi_result, slot_results, snap, stack_slots,
                 next_post_dominating_hole, delivered,
    deopt_spilled, last>>

Alloc ==
  [regs |-> register_values, vals |-> values, free |-> free_slots,
   top |-> top_of_stack, marks |-> marks, moves |-> moves, regC |-> regC,
   slotC |-> slotC, slotW |-> slotW, failed |-> failed,
   merges |-> merges]

Commit(a) ==
  /\ register_values' = a.regs
  /\ values' = a.vals
  /\ free_slots' = a.free
  /\ top_of_stack' = a.top
  /\ marks' = a.marks
  /\ moves' = a.moves
  /\ regC' = a.regC
  /\ slotC' = a.slotC
  /\ slotW' = a.slotW
  /\ failed' = a.failed
  /\ merges' = a.merges

\* The step taken last, with the register file it started from: per register
\* the record held and that record's next_use.
Step(name, v, op, policy) ==
  [step |-> name, v |-> v, op |-> op, policy |-> policy,
   regs |-> register_values,
   next_uses |-> [i \in Regs |->
                   IF register_values[i] \in DOMAIN values
                   THEN values[register_values[i]].next_use ELSE 0]]

Blocks == 1 .. Len(graph.blocks)
CurBlock == graph.blocks[blk]
AtControl == idx = CurBlock.nodes
CurId == first_node_id(graph, blk) + idx
InputNodes == [j \in 1 .. Len(inputs) |-> inputs[j].node]
InputSet == {inputs[j].node : j \in 1 .. Len(inputs)}

\* How many uses the node with id m can have.
Cap(g, m) ==
  IF IsControlId(g, m)
  THEN LET b == g.blocks[BlockOf(g, m)]
       IN IF IsUnconditional(b.ctrl) THEN g.blocks[b.target].phis ELSE 1
  ELSE MaxInputs

UsesAt(vals, m) == Cardinality({x \in DOMAIN vals : vals[x].next_use = m})

\* Where a value defined at def can be used: by a later node or control node
\* of a block its definition dominates.
\* Whether m lies inside a loop that starts after def: a value defined before
\* a loop and used in it is used on every iteration, so its live range does
\* not end inside the loop.
EndsInsideLoop(g, def, m) ==
  \E b \in 1 .. Len(g.blocks) :
    /\ g.blocks[b].ctrl = "JumpLoop"
    /\ def < first_id(g, g.blocks[b].target)
    /\ first_id(g, g.blocks[b].target) <= m
    /\ m < control_id(g, b)
LastPositions(g, def) ==
  {m \in (def + 1) .. MaxId(g) :
     /\ ~IsPhiId(g, m)
     /\ <<BlockOf(g, def), BlockOf(g, m)>> \in g.dom
     /\ ~EndsInsideLoop(g, def, m)}
UsePositions(g, def) ==
  {m \in (def + 1) .. MaxId(g) :
     ~IsPhiId(g, m) /\ <<BlockOf(g, def), BlockOf(g, m)>> \in g.dom}
NextPositions(g, vals, def, lo, hi) ==
  {m \in UsePositions(g, def) : lo < m /\ m <= hi /\ UsesAt(vals, m) < Cap(g, m)}
\* <<next_use, live_range().end>> of a value defined at def; <<0, 0>> is a
\* value nobody uses.
UseChoices(g, vals, def) ==
  {<<0, 0>>}
    \cup {<<nx, la>> \in NextPositions(g, vals, def, def, MaxId(g)) \X LastPositions(g, def) :
            nx <= la}
CapacityOK(g, vals) == \A m \in 1 .. MaxId(g) : UsesAt(vals, m) <= Cap(g, m)

Due == {v \in DOMAIN values : values[v].next_use = CurId}

\* The state when the constructor starts on the graph.
Constructed ==
  /\ blk = 1 /\ idx = 0 /\ pc = "holes"
  /\ register_values = [i \in Regs |-> nullnode]
  /\ values = [v \in {} |-> LiveNodeInfo(0, 0)]
  /\ free_slots = <<>>
  /\ top_of_stack = 0
  /\ marks = {}
  /\ moves = <<>>
  /\ regC = [i \in Regs |-> nullnode]
  /\ slotC = [x \in {} |-> nullnode]
  /\ slotW = [x \in {} |-> nullnode]
  /\ failed = {}
  /\ merges = <<>>
  /\ inputs = <<>>
  /\ temporaries = {}
  /\ props = "none"
  /\ result = InvalidOperand
  /\ merge_state = [b \in 1 .. Len(graph.blocks) |-> [i \in Regs |-> UninitializedState]]
  /\ phi_input = [b \in 1 .. Len(graph.blocks) |->
                    [k \in 1 .. graph.blocks[b].phis |->
                       [j \in 0 .. (graph.blocks[b].predecessor_count - 1) |-> InvalidOperand]]]
  /\ phi_node = [b \in 1 .. Len(graph.blocks) |->
                   [k \in 1 .. graph.blocks[b].phis |->
                      [j \in 0 .. (graph.blocks[b].predecessor_count - 1) |-> nullnode]]]
  /\ phi_result = [b \in 1 .. Len(graph.blocks) |->
                     [k \in 1 .. graph.blocks[b].phis |-> InvalidOperand]]
  /\ slot_results = {}
  /\ snap = [b \in 1 .. Len(graph.blocks) |-> [i \in Regs |-> nullnode]]
  /\ stack_slots = -1
  /\ next_post_dominating_hole = [b \in 1 .. Len(graph.blocks) |-> 0]
  /\ delivered = [b \in 1 .. Len(graph.blocks) |->
                    [regs |-> [i \in Regs |-> nullnode], live |-> {}]]
  /\ deopt_spilled = {}
  /\ last = Step("Init", nullnode, InvalidOperand, "")

Init == graph \in Graphs /\ Constructed

\* ----------------------------------------------------------------- actions
InputCap ==
  IF AtControl THEN (IF IsUnconditional(CurBlock.ctrl) THEN 0 ELSE 1) ELSE MaxInputs

\* The constructor's first call: ComputePostDominatingHoles(graph).
ComputePostDominatingHolesStep ==
  /\ pc = "holes"
  /\ next_post_dominating_hole' = ComputePostDominatingHoles(graph)
  /\ pc' = "block"
  /\ last' = Step("ComputePostDominatingHoles", nullnode, InvalidOperand, "")
  /\ UNCHANGED <<graph, blk, idx, register_values, values, free_slots, top_of_stack,
                 marks, moves, regC, slotC, slotW, failed, merges, inputs, temporaries, props,
                 result, merge_state, phi_input, phi_node, phi_result, slot_results,
                 snap, stack_slots, delivered, deopt_spilled>>

\* AllocateNode / AllocateControlNode: for (Input& input : *node) AssignInput(input)
AssignInputStep ==
  /\ pc = "input"
  /\ Len(inputs) < InputCap
  /\ \E v \in Due, policy \in InputPolicies :
       LET r == AssignInput(Alloc, v, policy)
           ins == Append(inputs, [node |-> v, op |-> r.op])
       IN /\ Cardinality(Due \ (InputSet \cup {v})) <= InputCap - Len(ins)
          /\ Commit(r.a)
          /\ inputs' = ins
          /\ last' = Step("AssignInput", v, r.op, policy.p)
  /\ UNCHANGED <<graph, blk, idx, pc, temporaries, props, result, merge_state,
                 phi_input, phi_node, phi_result, slot_results, snap, stack_slots,
                 next_post_dominating_hole, delivered, deopt_spilled>>

\* AssignTemporaries(node), once every input is assigned.
AssignTemporariesStep ==
  /\ pc = "input"
  /\ (AtControl /\ IsUnconditional(CurBlock.ctrl)) \/ Due \subseteq InputSet
  /\ \E count \in 0 .. (IF AtControl THEN 0 ELSE graph.temps) :
       LET r == GetFreeRegisters(Alloc, count)
       IN /\ Commit(r.a)
          /\ temporaries' = r.list
          /\ last' = Step("AssignTemporaries", count, InvalidOperand, "")
  /\ pc' = "uses"
  /\ UNCHANGED <<graph, blk, idx, inputs, props, result, merge_state, phi_input,
                 phi_node, phi_result, slot_results, snap, stack_slots,
                 next_post_dominating_hole, delivered, deopt_spilled>>

\* for (Input& input : *node) UpdateInputUseAndClearDead(node->id(), input)
UpdateUsesStep ==
  /\ pc = "uses"
  /\ LET survivors == {v \in InputSet : values[v].last_use # CurId}
     IN \E next \in [survivors -> 1 .. MaxId(graph)] :
          LET a == UpdateUses(Alloc, CurId, InputNodes, next)
          IN /\ \A v \in survivors :
                  next[v] \in NextPositions(graph, values, v, CurId, values[v].last_use)
             /\ CapacityOK(graph, a.vals)
             /\ Commit(a)
  /\ pc' = "spill"
  /\ last' = Step("UpdateUses", nullnode, InvalidOperand, "")
  /\ UNCHANGED <<graph, blk, idx, inputs, temporaries, props, result, merge_state,
                 phi_input, phi_node, phi_result, slot_results, snap, stack_slots,
                 next_post_dominating_hole, delivered, deopt_spilled>>

AfterSpill == IF AtControl THEN "inject" ELSE "result"

\* The node is neither a call nor can it deopt.
NoSpillStep ==
  /\ pc = "spill"
  /\ pc' = AfterSpill
  /\ props' = "none"
  /\ last' = Step("NoSpill", nullnode, InvalidOperand, "")
  /\ UNCHANGED <<graph, blk, idx, register_values, values, free_slots, top_of_stack,
                 marks, moves, regC, slotC, slotW, failed, merges, inputs, temporaries, result,
                 merge_state, phi_input, phi_node, phi_result, slot_results, snap, stack_slots,
                 next_post_dominating_hole, delivered, deopt_spilled>>

\* if (node->properties().is_call()) SpillAndClearRegisters();  Of the control
\* nodes only a conditional branch is a call.
SpillAndClearRegistersStep ==
  /\ pc = "spill"
  /\ "call" \in graph.props
  /\ AtControl => CurBlock.ctrl = "Conditional"
  /\ Commit(SpillAndClearRegisters(Alloc))
  /\ pc' = AfterSpill
  /\ props' = "call"
  /\ last' = Step("SpillAndClearRegisters", nullnode, InvalidOperand, "")
  /\ UNCHANGED <<graph, blk, idx, inputs, temporaries, result, merge_state, phi_input,
                 phi_node, phi_result, slot_results, snap, stack_slots,
                 next_post_dominating_hole, delivered, deopt_spilled>>

\* The values in registers that have no stack slot yet.
Unspilled(a) ==
  {a.regs[i] : i \in {i \in Regs : a.regs[i] \in DOMAIN a.vals
                                     /\ a.vals[a.regs[i]].stack_slot = nullslot}}

\* if (node->properties().can_deopt()) SpillRegisters();  A control node
\* spills after the phi inputs are injected.
SpillRegistersStep ==
  /\ pc = "spill"
  /\ "deopt" \in graph.props
  /\ Commit(IF AtControl THEN Alloc ELSE SpillRegisters(Alloc))
  /\ deopt_spilled' = IF AtControl THEN deopt_spilled
                      ELSE deopt_spilled \cup Unspilled(Alloc)
  /\ pc' = AfterSpill
  /\ props' = "deopt"
  /\ last' = Step(IF AtControl THEN "NoSpill" ELSE "SpillRegisters", nullnode,
                  InvalidOperand, "")
  /\ UNCHANGED <<graph, blk, idx, inputs, temporaries, result, merge_state, phi_input,
                 phi_node, phi_result, slot_results, snap, stack_slots,
                 next_post_dominating_hole, delivered>>

FixedSlotsUsed == {p[2] : p \in {q \in slot_results : q[2] < 0}}

\* The result policies the current node can have.  SAME_AS_INPUT names the
\* register of an input whose last use is this node; FIXED_SLOT is for the
\* initial values at the head of the first block.
ResultPolicies ==
  {[p |-> "MUST_HAVE_REGISTER", r |-> 0]}
    \cup {[p |-> "FIXED_REGISTER", r |-> i] : i \in Regs}
    \cup {[p |-> "SAME_AS_INPUT", r |-> inputs[j].op.index] :
            j \in {j \in 1 .. Len(inputs) :
                     IsRegister(inputs[j].op) /\ inputs[j].node \notin DOMAIN values}}
    \cup {[p |-> "FIXED_SLOT", r |-> -(Cardinality(FixedSlotsUsed) + 1)] :
            x \in {x \in {1} :
                     /\ blk = 1 /\ inputs = <<>> /\ temporaries = {} /\ props = "none"
                     /\ DOMAIN values \subseteq {p[1] : p \in slot_results}
                     /\ Cardinality(FixedSlotsUsed) < MaxFixedSlots}}

\* if (node->Is<ValueNode>()) AllocateNodeResult(node->Cast<ValueNode>());
AllocateNodeResultStep ==
  /\ pc = "result"
  /\ \E policy \in ResultPolicies, use \in UseChoices(graph, values, CurId) :
       LET r == AllocateNodeResult(Alloc, CurId, policy, use[2], use[1])
       IN /\ Commit(r.a)
          /\ result' = r.op
          /\ slot_results' = IF IsStackSlot(r.op)
                             THEN slot_results \cup {<<CurId, r.op.index>>}
                             ELSE slot_results
          /\ last' = Step("AllocateNodeResult", CurId, r.op, policy.p)
  /\ pc' = "exec"
  /\ UNCHANGED <<graph, blk, idx, inputs, temporaries, props, merge_state, phi_input,
                 phi_node, phi_result, snap, stack_slots,
                 next_post_dominating_hole, delivered, deopt_spilled>>

\* The node is not a ValueNode.
NoResultStep ==
  /\ pc = "result"
  /\ pc' = "exec"
  /\ result' = InvalidOperand
  /\ last' = Step("NoResult", nullnode, InvalidOperand, "")
  /\ UNCHANGED <<graph, blk, idx, register_values, values, free_slots, top_of_stack,
                 marks, moves, regC, slotC, slotW, failed, merges, inputs, temporaries, props,
                 merge_state, phi_input, phi_node, phi_result, slot_results, snap, stack_slots,
                 next_post_dominating_hole, delivered, deopt_spilled>>

\* What running the node does to the machine: its temporaries and, for a call,
\* every register are clobbered, then the result is written.
ExecuteNode(a, id, temps, call, res) ==
  LET clobbered == [a EXCEPT !.regC = [i \in Regs |->
                                         IF call \/ i \in temps THEN nullnode
                                         ELSE a.regC[i]]]
      written == WriteLoc(clobbered, res, id)
  IN IF IsStackSlot(res) THEN [written EXCEPT !.slotW = Upd(@, res.index, id)]
     ELSE written

\* The allocator moves on to the next node of the block (++node_it_).
NextNodeStep ==
  /\ pc = "exec"
  /\ Commit([ExecuteNode(Alloc, CurId, temporaries, props = "call", result)
               EXCEPT !.moves = <<>>])
  /\ idx' = idx + 1
  /\ pc' = "input"
  /\ inputs' = <<>>
  /\ temporaries' = {}
  /\ props' = "none"
  /\ result' = InvalidOperand
  /\ last' = Step("NextNode", nullnode, InvalidOperand, "")
  /\ UNCHANGED <<graph, blk, merge_state, phi_input, phi_node, phi_result,
                 slot_results, snap, stack_slots,
                 next_post_dominating_hole, delivered, deopt_spilled>>

\* The head of AllocateRegisters' loop body: restore the merge-point state and
\* activate the phis.  The machine is the one some predecessor already
\* allocated leaves behind.
EnterBlockStep ==
  /\ pc = "block"
  /\ \E P \in IF blk = 1 THEN {0} ELSE {Q \in Predecessors(graph, blk) : Q < blk},
        use \in [1 .. CurBlock.phis -> UseChoices(graph, values, first_id(graph, blk))] :
       LET restored == IF CurBlock.has_state
                       THEN InitializeRegisterValues(Alloc, merge_state[blk])
                       ELSE Alloc
           r == ActivatePhis(graph, blk, restored, phi_input[blk], use)
           pres == [phi_result EXCEPT ![blk] = r.res]
           sres == slot_results \cup
                     {<<PhiId(graph, blk, k), r.res[k].index>> :
                        k \in {k \in 1 .. CurBlock.phis : IsStackSlot(r.res[k])}}
           m == IF blk = 1 THEN r.a
                ELSE MachineAtEdge(graph, merge_state, phi_input, phi_node, pres, snap,
                                   r.a.marks \cup sres, r.a, P, blk)
       IN /\ \A k \in 1 .. CurBlock.phis :
               use[k] \in UseChoices(graph, values, PhiId(graph, blk, k))
          /\ CapacityOK(graph, r.a.vals)
          /\ Commit([m EXCEPT !.moves = <<>>])
          /\ phi_result' = pres
          /\ slot_results' = sres
          /\ last' = Step("EnterBlock", P, InvalidOperand, "")
  /\ pc' = "input"
  /\ UNCHANGED <<graph, blk, idx, inputs, temporaries, props, result, merge_state,
                 phi_input, phi_node, snap, stack_slots,
                 next_post_dominating_hole, delivered, deopt_spilled>>

PhiInputs(f) == [k \in DOMAIN f |-> f[k]]

\* The first loop over the target's phis reading a shared input's location
\* only for the first phi that names it.
InjectAllocatedOncePerValue(a, f) ==
  [k \in DOMAIN f |-> IF \E j \in 1 .. (k - 1) : f[j] = f[k] THEN InvalidOperand
                      ELSE allocation(a.vals[f[k]])]

\* The first loop over the target's phis: input.InjectAllocated(info.allocation())
\* for the input f[k] of every phi k, before any input's use is updated.
InjectAllocated(a, f) == [k \in DOMAIN f |-> allocation(a.vals[f[k]])]

\* "Inject allocation into target phis", then
\* if (node->properties().can_deopt()) SpillRegisters();
InjectPhisStep ==
  /\ pc = "inject"
  /\ LET t == CurBlock.target
         n == IF IsUnconditional(CurBlock.ctrl) THEN graph.blocks[t].phis ELSE 0
         pid == CurBlock.predecessor_id
     IN \E f \in [1 .. n -> Due] :
          LET fed == {f[k] : k \in 1 .. n}
              survivors == {v \in fed : values[v].last_use # CurId}
          IN /\ Due \subseteq fed
             /\ \E next \in [survivors -> 1 .. MaxId(graph)] :
                  LET a == UpdateUses(Alloc, CurId, PhiInputs(f), next)
                      a2 == IF props = "deopt" THEN SpillRegisters(a) ELSE a
                  IN /\ \A v \in survivors :
                          next[v] \in NextPositions(graph, values, v, CurId,
                                                    values[v].last_use)
                     /\ CapacityOK(graph, a.vals)
                     /\ Commit(a2)
                     /\ deopt_spilled' = IF props = "deopt"
                                         THEN deopt_spilled \cup Unspilled(a)
                                         ELSE deopt_spilled
             /\ phi_input' = IF n = 0 THEN phi_input
                             ELSE [phi_input EXCEPT ![t] =
                                     [k \in 1 .. n |->
                                        [@[k] EXCEPT ![pid] = InjectAllocated(Alloc, f)[k]]]]
             /\ phi_node' = IF n = 0 THEN phi_node
                            ELSE [phi_node EXCEPT ![t] =
                                    [k \in 1 .. n |-> [@[k] EXCEPT ![pid] = f[k]]]]
  /\ pc' = "merge"
  /\ last' = Step(IF props = "deopt" THEN "SpillRegisters" ELSE "InjectPhis", nullnode,
                  InvalidOperand, "")
  /\ UNCHANGED <<graph, blk, idx, inputs, temporaries, props, result, merge_state,
                 phi_result, slot_results, snap, stack_slots,
                 next_post_dominating_hole, delivered>>

\* What reading an erased record's allocation() can yield.
DanglingOperands ==
  {InvalidOperand} \cup {RegisterOperand(i) : i \in Regs}
    \cup {StackSlotOperand(x) : x \in 0 .. (top_of_stack - 1)}

\* The merge at a control node with empty blocks' jumps merging as well.
MergeAtControlMergingEmptyBlocks(g, a, ms, b, source, d1, d2) ==
  LET B == g.blocks[b] IN
  IF IsUnconditional(B.ctrl)
  THEN LET r == MergeRegisterValues(g, a, ms[B.target], source, B.target,
                                    B.predecessor_id, d1)
       IN [a |-> r.a, ms |-> [ms EXCEPT ![B.target] = r.st]]
  ELSE IF B.ctrl = "Conditional"
  THEN LET r1 == InitializeConditionalBranchRegisters(g, a, ms, source, B.target, d1)
       IN InitializeConditionalBranchRegisters(g, r1.a, r1.ms, source, B.if_false, d2)
  ELSE [a |-> a, ms |-> ms]

\* The merge at the end of AllocateControlNode, for the control node kinds.
MergeAtControl(g, a, ms, b, source, d1, d2) ==
  LET B == g.blocks[b] IN
  IF IsUnconditional(B.ctrl)
  THEN IF B.is_empty THEN [a |-> a, ms |-> ms]
       ELSE LET r == MergeRegisterValues(g, a, ms[B.target], source, B.target,
                                         B.predecessor_id, d1)
            IN [a |-> r.a, ms |-> [ms EXCEPT ![B.target] = r.st]]
  ELSE IF B.ctrl = "Conditional"
  THEN LET r1 == InitializeConditionalBranchRegisters(g, a, ms, source, B.target, d1)
       IN InitializeConditionalBranchRegisters(g, r1.a, r1.ms, source, B.if_false, d2)
  ELSE [a |-> a, ms |-> ms]

\* Whether the merge at the current control node reads an erased record.
MergeReadsErased(g, a, ms, b, source) ==
  LET B == g.blocks[b]
      through(t) == IF g.blocks[t].is_empty THEN g.blocks[t].target ELSE t
  IN IF IsUnconditional(B.ctrl)
     THEN ~B.is_empty /\ ReadsErased(g, a, ms[B.target], source, B.target)
     ELSE IF B.ctrl = "Conditional"
     THEN \E t \in {B.target, B.if_false} :
            g.blocks[t].is_empty
              /\ ReadsErased(g, a, ms[through(t)], source, through(t))
     ELSE FALSE

\* Whether block b's edge into its target is merged at the control node of
\* block c: b's own unconditional control node, or the conditional that
\* branches to b when b is an empty block.
MergedHere(g, c, b) ==
  \/ b = c /\ IsUnconditional(g.blocks[c].ctrl) /\ ~g.blocks[c].is_empty
  \/ /\ g.blocks[c].ctrl = "Conditional"
     /\ b \in {g.blocks[c].target, g.blocks[c].if_false}
     /\ g.blocks[b].is_empty

\* The merge of AllocateControlNode, and on to the next block.
MergeStep ==
  /\ pc = "merge"
  /\ \E d \in IF MergeReadsErased(graph, Alloc, merge_state, blk, CurId)
              THEN DanglingOperands ELSE {InvalidOperand} :
       LET r == MergeAtControl(graph, Alloc, merge_state, blk, CurId, d, d)
       IN /\ Commit([r.a EXCEPT !.moves = <<>>])
          /\ merge_state' = r.ms
          /\ last' = Step("Merge", nullnode, d, CurBlock.ctrl)
  /\ snap' = [snap EXCEPT ![blk] = IF props = "call" THEN [i \in Regs |-> nullnode]
                                   ELSE regC]
  /\ delivered' = [b \in Blocks |->
                     IF MergedHere(graph, blk, b)
                     THEN [regs |-> register_values, live |-> DOMAIN values]
                     ELSE delivered[b]]
  /\ IF blk = Len(graph.blocks)
     THEN pc' = "done" /\ stack_slots' = top_of_stack' /\ UNCHANGED <<blk, idx>>
     ELSE pc' = "block" /\ blk' = blk + 1 /\ idx' = 0 /\ UNCHANGED stack_slots
  /\ inputs' = <<>>
  /\ temporaries' = {}
  /\ props' = "none"
  /\ result' = InvalidOperand
  /\ UNCHANGED <<graph, phi_input, phi_node, phi_result, slot_results, deopt_spilled,
                 next_post_dominating_hole>>

Next ==
  \/ ComputePostDominatingHolesStep
  \/ EnterBlockStep
  \/ AssignInputStep
  \/ AssignTemporariesStep
  \/ UpdateUsesStep
  \/ NoSpillStep
  \/ SpillAndClearRegistersStep
  \/ SpillRegistersStep
  \/ AllocateNodeResultStep
  \/ NoResultStep
  \/ NextNodeStep
  \/ InjectPhisStep
  \/ MergeStep

Spec == Init /\ [][Next]_vars

\* The allocation of the graph with several phis at its merge block.
PhiInit == graph \in {TwoPhiGraph} /\ Constructed
PhiSpec == PhiInit /\ [][Next]_vars

\* The allocation of the straight-line graph and of the graph whose merge
\* block has three predecessors.
ThreeWayInit == graph \in {StraightGraph, ThreeWayGraph} /\ Constructed
ThreeWaySpec == ThreeWayInit /\ [][Next]_vars

\* ------------------------------------------------------------------ claims
\* Where every gap move inserted before the current node is in place: a value
\* node with its result allocated, a control node before its merge.
BeforeNodeExecutes == pc = "exec" \/ pc = "inject"

\* C1: just before a node executes, the location written into each of its
\* input operands holds the value of that input's defining node, for all the
\* node's inputs at once.
C1_InputsHoldTheirValues ==
  BeforeNodeExecutes =>
    \A j \in 1 .. Len(inputs) : Content(Alloc, inputs[j].op) = inputs[j].node

\* C3 as stated: a register-file entry that refers to a record is the
\* register named by the record's reg field.
C3_RegisterFileEntryIsRecordReg ==
  \A i \in Regs :
    register_values[i] \in DOMAIN values => values[register_values[i]].reg = i

\* A record that two register-file entries refer to at once.
C3_RecordInTwoRegisters ==
  \E i, j \in Regs :
    i # j /\ register_values[i] # nullnode /\ register_values[i] = register_values[j]

\* C3: for every register index i whose register-file entry refers to a
\* record, the record's reg field names a register whose entry refers to the
\* same record (i or another register holding it), or the reg field is none
\* and the record owns a stack slot.
C3_RegisterFileEntryHasHome ==
  \A i \in Regs :
    register_values[i] \in DOMAIN values =>
      LET info == values[register_values[i]]
      IN \/ info.reg # no_reg /\ register_values[info.reg] = register_values[i]
         \/ info.reg = no_reg /\ info.stack_slot # nullslot

\* C4: every record of the liveness table whose reg field is set is the
\* record its register's entry of the register file refers to.
C4_RegPointsBack ==
  \A v \in DOMAIN values :
    values[v].reg # no_reg => register_values[values[v].reg] = v

C4_SomeRecordInRegister ==
  \E v \in DOMAIN values : values[v].reg # no_reg /\ last.step = "EnterBlock" /\ blk > 1

\* C5: every record in the liveness table has a register or a stack slot.
C5_RecordHasRegisterOrSlot ==
  \A v \in DOMAIN values :
    values[v].reg # no_reg \/ values[v].stack_slot # nullslot

\* The records whose value is live at the node being processed: its definition
\* dominates the node and its last use is the node or comes after it.
LiveHere ==
  {v \in DOMAIN values :
     <<BlockOf(graph, v), blk>> \in graph.dom /\ values[v].last_use >= CurId}

\* C5: every record of the liveness table whose value is live at the node
\* being processed has a register or a stack slot.
C5_LiveRecordHasRegisterOrSlot ==
  \A v \in LiveHere : values[v].reg # no_reg \/ values[v].stack_slot # nullslot

\* A record that lost its register at a conditional's fall-through or at a
\* merge-state restore while its value is still to be used.
C5_LiveRecordOutOfRegisters ==
  /\ last.step \in {"Merge", "EnterBlock"}
  /\ \E v \in LiveHere :
       /\ values[v].reg = no_reg
       /\ \E i \in Regs : last.regs[i] = v /\ register_values[i] # v

\* The edges along which phi moves are emitted: an unconditional control node
\* of P whose target b has phis.
PhiEdges ==
  {e \in Blocks \X Blocks :
     /\ graph.blocks[e[2]].phis > 0
     /\ IsUnconditional(graph.blocks[e[1]].ctrl)
     /\ graph.blocks[e[1]].target = e[2]}

\* The machine after the moves emitted at the end of P on its edge to b, once
\* the whole graph is allocated.
AfterEdgeMoves(P, b) ==
  MachineAtEdge(graph, merge_state, phi_input, phi_node, phi_result, snap,
                marks \cup slot_results, Alloc, P, b)

\* C2: for every merge block, every phi of it and every predecessor, after the
\* register-merge moves and then the phi moves emitted at the predecessor's
\* unconditional control node, the phi's result location holds the value the
\* phi's input for that predecessor had at the end of the predecessor.
C2_PhiResultHoldsInput ==
  pc = "done" =>
    \A e \in PhiEdges : \A k \in 1 .. graph.blocks[e[2]].phis :
      Content(AfterEdgeMoves(e[1], e[2]), phi_result[e[2]][k]) = PhiId(graph, e[2], k)

\* The machine where the code reaches the end of block P, before the moves
\* emitted at P's control node.
EndOfBlock(P) ==
  LET slots == PathSlots(graph, marks \cup slot_results, P)
  IN [Alloc EXCEPT !.regC = snap[P], !.slotC = slots, !.slotW = slots]

\* The edges merged into a merge block's register state: an unconditional
\* control node of P (an empty block included) whose target b has a state.
MergeEdges ==
  {e \in Blocks \X Blocks :
     /\ graph.blocks[e[2]].has_state
     /\ IsUnconditional(graph.blocks[e[1]].ctrl)
     /\ graph.blocks[e[1]].target = e[2]}

\* C6: once every predecessor is merged, for every merge block, every
\* register whose merge-state entry is a RegisterMerge and every predecessor
\* P, the entry's operand for P is the location that holds the entry's
\* canonical value at the end of P.
C6_MergeOperandHoldsValue ==
  pc = "done" =>
    \A e \in MergeEdges : \A i \in Regs :
      LET entry == merge_state[e[2]][i]
      IN entry.is_merge =>
           Content(EndOfBlock(e[1]), entry.operands[graph.blocks[e[1]].predecessor_id])
             = entry.node

\* The blocks whose edge into T is merged into T's register state.
MergePredecessors(T) ==
  {P \in Blocks : IsUnconditional(graph.blocks[P].ctrl) /\ graph.blocks[P].target = T}

\* Every predecessor of T delivered the canonical record of T's register i,
\* and not all of them in register i.
DeliveredApart(T, i) ==
  LET v == merge_state[T][i].node
  IN /\ \A P \in MergePredecessors(T) : v \in delivered[P].live
     /\ \E P \in MergePredecessors(T) : delivered[P].regs[i] # v

\* C7: after the last predecessor of a merge block is merged, every register
\* index of its merge state is initialized, empty or holding a canonical
\* record; and where the predecessors delivered that record in different
\* locations the entry is a RegisterMerge whose operand array has one
\* allocated operand per predecessor.
C7_MergeStateComplete ==
  pc = "done" =>
    \A T \in Blocks : graph.blocks[T].has_state =>
      \A i \in Regs :
        LET entry == merge_state[T][i]
        IN /\ entry.is_initialized
           /\ entry.node = nullnode => ~entry.is_merge
           /\ (entry.node # nullnode /\ DeliveredApart(T, i)) =>
                /\ entry.is_merge
                /\ DOMAIN entry.operands = 0 .. (graph.blocks[T].predecessor_count - 1)
                /\ \A j \in DOMAIN entry.operands : entry.operands[j] # InvalidOperand

\* A merge block one of whose registers got its canonical record from
\* predecessors that held it in different locations.
C7_PredecessorsDisagree ==
  /\ pc = "done"
  /\ \E T \in Blocks, i \in Regs :
       /\ graph.blocks[T].has_state
       /\ merge_state[T][i].node # nullnode
       /\ DeliveredApart(T, i)
       /\ merge_state[T][i].is_merge

\* C8: right after the spill step of a call, every record that was held in a
\* register has a stack slot and no register, every register-file entry is
\* empty, and the call's own result is not allocated yet.
C8_CallSpillsAndClears ==
  last.step = "SpillAndClearRegisters" =>
    /\ \A i \in Regs : register_values[i] = nullnode
    /\ \A i \in Regs :
         last.regs[i] # nullnode =>
           /\ last.regs[i] \in DOMAIN values
           /\ values[last.regs[i]].stack_slot # nullslot
           /\ values[last.regs[i]].reg = no_reg
    /\ result = InvalidOperand
    /\ ~AtControl => CurId \notin DOMAIN values

\* A call processed while two records are held in registers.
C8_CallWithRecordsInRegisters ==
  /\ last.step = "SpillAndClearRegisters"
  /\ Cardinality({last.regs[i] : i \in Regs} \ {nullnode}) >= 2

RegisterAccepting == {"REGISTER_OR_SLOT", "MUST_HAVE_REGISTER"}

\* The spill step of a node that can deopt.
DeoptSpillKeepsRegisters ==
  last'.step = "SpillRegisters" =>
    /\ register_values' = register_values
    /\ DOMAIN values' = DOMAIN values
    /\ \A v \in DOMAIN values : values'[v].reg = values[v].reg
    /\ \A i \in Regs :
         register_values[i] # nullnode =>
           values'[register_values[i]].stack_slot # nullslot

\* A use, under a policy that accepts a register, of a value such a spill
\* left in its register.
SpilledValueUsedInPlace ==
  (/\ last'.step = "AssignInput"
   /\ last'.policy \in RegisterAccepting
   /\ last'.v \in deopt_spilled
   /\ values[last'.v].reg # no_reg) =>
    /\ last'.op = RegisterOperand(values[last'.v].reg)
    /\ moves' = moves
    /\ register_values' = register_values

\* C9: the spill step of a node that can deopt gives every record held in a
\* register a stack slot and leaves the register file and every record's reg
\* field unchanged; a later use of such a value under a policy that accepts a
\* register takes it from that register, with no gap move.
C9_DeoptSpillLeavesValuesInRegisters ==
  [][DeoptSpillKeepsRegisters /\ SpilledValueUsedInPlace]_vars

\* A value a deopting node spilled is used from its register, no move added.
C9_SpilledValueUsedFromRegister ==
  /\ last.step = "AssignInput"
  /\ last.policy \in RegisterAccepting
  /\ last.v \in deopt_spilled
  /\ last.v \in DOMAIN values
  /\ values[last.v].stack_slot # nullslot
  /\ \E i \in Regs : last.regs[i] = last.v /\ last.op = RegisterOperand(i)
  /\ moves = <<>>

\* AllocateRegister is called with every register occupied: a result or an
\* input that must have a register, the input's value having none.
AllocateRegisterWhenFull ==
  /\ last'.step \in {"AssignInput", "AllocateNodeResult"}
  /\ last'.policy = "MUST_HAVE_REGISTER"
  /\ \A i \in Regs : register_values[i] \in DOMAIN values
  /\ last'.step = "AssignInput" => values[last'.v].reg = no_reg

\* The lowest register among those whose occupant has the greatest next_use.
EvictionChoice ==
  LET top == Max({values[register_values[i]].next_use : i \in Regs})
  IN Min({i \in Regs : values[register_values[i]].next_use = top})

\* C10: when AllocateRegister is called while every register is occupied, the
\* register taken is the one whose occupant has the maximum next_use, the
\* lowest such register on a tie; the new record ends up in it and the other
\* registers keep their occupants.
C10_EvictsFurthestUseLowestIndex ==
  [][AllocateRegisterWhenFull =>
       /\ last'.op = RegisterOperand(EvictionChoice)
       /\ register_values'[EvictionChoice] = last'.v
       /\ \A i \in Regs \ {EvictionChoice} : register_values'[i] = register_values[i]]_vars

\* An eviction between two different occupants tied for the furthest next use.
C10_EvictionOnTie ==
  /\ last.step \in {"AssignInput", "AllocateNodeResult"}
  /\ last.policy = "MUST_HAVE_REGISTER"
  /\ \A i \in Regs : last.regs[i] # nullnode /\ last.regs[i] # last.v
  /\ \E i, j \in Regs :
       /\ i < j
       /\ last.regs[i] # last.regs[j]
       /\ last.next_uses[i] = last.next_uses[j]
       /\ \A k \in Regs : last.next_uses[k] <= last.next_uses[i]
       /\ \A k \in Regs : k < i => last.next_uses[k] < last.next_uses[i]
       /\ last.op = RegisterOperand(i)
       /\ register_values[i] = last.v

\* The registers empty in the current register file.
EmptyNow == {i \in Regs : register_values[i] = nullnode}

\* A step whose allocation is decided by TryAllocateRegister: a result or an
\* input that must have a register, the input's value having none, while some
\* register is empty.
TryAllocateRegisterSucceeds ==
  /\ last'.step \in {"AssignInput", "AllocateNodeResult"}
  /\ last'.policy = "MUST_HAVE_REGISTER"
  /\ EmptyNow # {}
  /\ last'.step = "AssignInput" => values[last'.v].reg = no_reg

\* TryAllocateRegister on the current allocator with every register occupied.
TryAllocateRegisterFails ==
  EmptyNow = {} =>
    \A v \in DOMAIN values :
      /\ TryAllocateRegister(Alloc, v).op = InvalidOperand
      /\ TryAllocateRegister(Alloc, v).a = Alloc

\* C11: TryAllocateRegister binds the record to the lowest-index empty
\* register (register-file entry and reg field) and returns that register,
\* the other registers keeping their occupants; with no register empty it
\* returns no allocation and leaves the register file and the record as they
\* were.
C11_TryAllocateRegisterLowestEmpty ==
  /\ []TryAllocateRegisterFails
  /\ [][TryAllocateRegisterSucceeds =>
          /\ last'.op = RegisterOperand(Min(EmptyNow))
          /\ register_values' = [register_values EXCEPT ![Min(EmptyNow)] = last'.v]
          /\ values'[last'.v].reg = Min(EmptyNow)]_vars

\* A record bound by TryAllocateRegister while more than one register is
\* empty.
C11_BoundToLowestOfSeveral ==
  /\ last.step \in {"AssignInput", "AllocateNodeResult"}
  /\ last.policy = "MUST_HAVE_REGISTER"
  /\ Cardinality({i \in Regs : last.regs[i] = nullnode}) >= 2
  /\ last.op = RegisterOperand(Min({i \in Regs : last.regs[i] = nullnode}))
  /\ register_values[last.op.index] = last.v

\* A FIXED_REGISTER input is being assigned to a register held by another record.
FixedInputOverOccupant ==
  /\ last'.step = "AssignInput"
  /\ last'.policy = "FIXED_REGISTER"
  /\ register_values[last'.op.index] \notin {nullnode, last'.v}

\* The gap moves the step added before the current node.
NewMoves == {moves'[k] : k \in (Len(moves) + 1) .. Len(moves')}

\* Record w, which held register reg before the step, is still held by
\* another register (moved there by a register-to-register gap move unless it
\* was there already) or owns a stack slot.
OccupantStillReachable(w, reg) ==
  /\ w \in DOMAIN values'
  /\ \/ values'[w].stack_slot # nullslot
     \/ \E j \in Regs \ {reg} :
          /\ register_values'[j] = w
          /\ register_values[j] = w
               \/ <<RegisterOperand(reg), RegisterOperand(j)>> \in NewMoves

\* C12: after a fixed-register input is assigned to register R held by a
\* different record, R's register-file entry refers to the input's record and
\* that record's reg field is R; the former occupant is held by another
\* register (with a register-to-register gap move before the node if it had
\* to be moved) or owns a stack slot.
C12_FixedInputEvictsOccupant ==
  [][FixedInputOverOccupant =>
       /\ register_values'[last'.op.index] = last'.v
       /\ values'[last'.v].reg = last'.op.index
       /\ OccupantStillReachable(register_values[last'.op.index], last'.op.index)]_vars

\* A fixed-register input has just displaced an unspilled occupant into
\* another register.
C12_OccupantMovedAside ==
  /\ last.step = "AssignInput"
  /\ last.policy = "FIXED_REGISTER"
  /\ last.regs[last.op.index] \notin {nullnode, last.v}
  /\ register_values[last.op.index] = last.v
  /\ \E j \in Regs \ {last.op.index} :
       /\ register_values[j] = last.regs[last.op.index]
       /\ last.regs[j] # last.regs[last.op.index]
       /\ <<RegisterOperand(last.op.index), RegisterOperand(j)>> \in
            {moves[k] : k \in 1 .. Len(moves)}

\* The slots on the free-list.
FreeSlotSet(list) == {list[k] : k \in 1 .. Len(list)}

\* The records whose last use the update-uses step has just consumed.
Consumed == DOMAIN values \ DOMAIN values'

\* C13: when a value's last use is consumed, its stack slot is returned to the
\* free-list if and only if the slot is locally allocated (index >= 0);
\* caller-provided fixed slots (index < 0) are never added to the free-list.
C13_LastUseFreesLocalSlot ==
  /\ [](\A s \in FreeSlotSet(free_slots) : s >= 0)
  /\ [][last'.step = "UpdateUses" =>
          \A v \in Consumed :
            values[v].stack_slot # nullslot =>
              (values[v].stack_slot \in FreeSlotSet(free_slots')
                 <=> values[v].stack_slot >= 0)]_vars

\* The slot indices AllocateSpillSlot has handed out: the slots of the nodes
\* marked spilled and of the phis placed in a stack slot.
HandedOut ==
  {p[2] : p \in marks} \cup {p[2] : p \in {q \in slot_results : q[2] >= 0}}

\* C14 as stated: at every allocator step, and in the final stack-slot count
\* written back to the graph, top_of_stack is the maximum of all slot indices
\* handed out by AllocateSpillSlot so far.
C14_TopOfStackIsMaximum ==
  HandedOut # {} =>
    /\ top_of_stack = Max(HandedOut)
    /\ pc = "done" => stack_slots = Max(HandedOut)

\* C14 amended: at every allocator step top_of_stack is the number of slot
\* indices handed out so far, which are 0 .. top_of_stack - 1: one more than
\* their maximum, and 0 while none has been handed out; the count written back
\* to the graph at the end is that value.
C14_TopOfStackIsCount ==
  /\ HandedOut = 0 .. (top_of_stack - 1)
  /\ top_of_stack = IF HandedOut = {} THEN 0 ELSE Max(HandedOut) + 1
  /\ pc = "done" => stack_slots = top_of_stack
  /\ pc # "done" => stack_slots = -1

\* Allocation has finished with several slots handed out.
C14_FinishedWithSeveralSlots ==
  /\ pc = "done"
  /\ Cardinality(HandedOut) >= 2
  /\ stack_slots = Cardinality(HandedOut)

\* C15: in the post-dominating-hole pass, for a conditional whose two branch
\* chains have not converged when the chain node with the smaller id is a
\* Return or JumpLoop, the value finally stored in the conditional's
\* next_post_dominating_hole is the other chain's node (second); when the
\* chains converge, it is the converged node.
C15_HoleOfUnconvergedBranchesIsSecond ==
  pc # "holes" =>
    \A b \in Blocks :
      graph.blocks[b].ctrl = "Conditional" =>
        LET w == WalkBranches(graph, next_post_dominating_hole,
                   NearestPostDominatingHole(graph, next_post_dominating_hole,
                                             graph.blocks[b].target),
                   NearestPostDominatingHole(graph, next_post_dominating_hole,
                                             graph.blocks[b].if_false))
        IN next_post_dominating_hole[b] = IF w.broke THEN w.second ELSE w.first

\* How often MergeRegisterValues was called for target t with predecessor id p.
TimesMerged(list, t, p) == Cardinality({k \in 1 .. Len(list) : list[k] = <<t, p>>})

\* The empty blocks the conditional of block b branches to.
EmptyTargets(b) ==
  IF graph.blocks[b].ctrl = "Conditional"
  THEN {t \in {graph.blocks[b].target, graph.blocks[b].if_false} : graph.blocks[t].is_empty}
  ELSE {}

\* C16: when a conditional's branch target is an empty block (only a Jump),
\* the register state is merged into the Jump's target using the empty block's
\* predecessor id at the time the conditional is processed; the empty block's
\* own Jump performs no merge later, so each edge into the merge block is
\* merged exactly once.
C16_EmptyBlockMergedAtConditional ==
  /\ [][last'.step = "Merge" =>
          /\ \A t \in EmptyTargets(blk) :
               TimesMerged(merges', graph.blocks[t].target, graph.blocks[t].predecessor_id)
                 = TimesMerged(merges, graph.blocks[t].target,
                               graph.blocks[t].predecessor_id) + 1
          /\ CurBlock.is_empty => merges' = merges]_vars
  /\ [](pc = "done" =>
          \A b \in Blocks :
            IsUnconditional(graph.blocks[b].ctrl) =>
              TimesMerged(merges, graph.blocks[b].target, graph.blocks[b].predecessor_id) = 1)

\* Allocation has finished on a graph whose conditional branches to an empty
\* block, with that block's edge merged before the other predecessor's.
C16_EmptyBlockEdgeMergedFirst ==
  /\ pc = "done"
  /\ \E b \in Blocks, c \in Blocks :
       /\ graph.blocks[b].is_empty
       /\ graph.blocks[c].target = graph.blocks[b].target
       /\ IsUnconditional(graph.blocks[c].ctrl) /\ ~graph.blocks[c].is_empty
       /\ merges = << <<graph.blocks[b].target, graph.blocks[b].predecessor_id>>,
                      <<graph.blocks[c].target, graph.blocks[c].predecessor_id>> >>

\* The targets block b's control node tests liveness at: its successors, and
\* the block beyond a successor that is an empty block.
EdgeTargets(b) ==
  LET B == graph.blocks[b]
      direct == IF IsUnconditional(B.ctrl) THEN {B.target}
                ELSE IF B.ctrl = "Conditional" THEN {B.target, B.if_false}
                ELSE {}
  IN direct \cup {graph.blocks[t].target : t \in {u \in direct : graph.blocks[u].is_empty}}

\* Liveness at target t for source control node id S, as the rule states it.
LiveAtTargetRule(v, S, t) ==
  IF v = nullnode THEN FALSE
  ELSE IF first_id(graph, t) <= S THEN v < FirstNonGapMoveId(graph, t)
  ELSE values[v].last_use >= first_id(graph, t)

\* C17: IsLiveAtTarget is false for an absent record and otherwise, on a back
\* edge (T.first_id <= S.id), tells whether the record's defining id is below
\* T.FirstNonGapMoveId and, on a forward edge, whether its last_use is at
\* least T.first_id; the code's back-edge test (T's control node id <= S.id)
\* classifies every edge as T.first_id <= S.id does, so a value defined before
\* a loop is kept live across the back edge.
C17_IsLiveAtTargetFollowsRule ==
  \A b \in Blocks :
    \A t \in EdgeTargets(b) :
      /\ (control_id(graph, t) <= control_id(graph, b))
           <=> (first_id(graph, t) <= control_id(graph, b))
      /\ \A v \in {register_values[i] : i \in Regs} \cup DOMAIN values \cup {nullnode} :
           v \in DOMAIN values \cup {nullnode} =>
             /\ IsLiveAtTarget(graph, Alloc, v, control_id(graph, b), t)
                  = LiveAtTargetRule(v, control_id(graph, b), t)
             /\ (v # nullnode /\ graph.blocks[b].ctrl = "JumpLoop" /\ v < first_id(graph, t))
                  => IsLiveAtTarget(graph, Alloc, v, control_id(graph, b), t)

\* The back edge is about to be merged with a register holding a value
\* defined before the loop.
C17_PreLoopValueAtBackEdge ==
  /\ pc = "merge"
  /\ CurBlock.ctrl = "JumpLoop"
  /\ \E i \in Regs :
       /\ register_values[i] \in DOMAIN values
       /\ register_values[i] < first_id(graph, CurBlock.target)
       /\ IsLiveAtTarget(graph, Alloc, register_values[i], CurId, CurBlock.target)

\* A block with phis is being entered.
PhiEntry == last'.step = "EnterBlock" /\ CurBlock.phis > 0

\* The allocator once the entered block's merge state is restored.
Restored ==
  IF CurBlock.has_state THEN InitializeRegisterValues(Alloc, merge_state[blk]) ELSE Alloc

\* The registers among phi k's input operands.
PhiInputRegs(k) ==
  {phi_input[blk][k][j].index :
     j \in {i \in DOMAIN phi_input[blk][k] : IsRegister(phi_input[blk][k][i])}}

\* Phi k ends with an allocated result: a register that was empty after the
\* restore, or a stack slot.
PhiPlaced(k) ==
  LET phi == PhiId(graph, blk, k)
      res == phi_result'[blk][k]
  IN /\ IsRegister(res) \/ IsStackSlot(res)
     /\ IsRegister(res) =>
          /\ Restored.regs[res.index] = nullnode
          /\ register_values'[res.index] = phi
          /\ values'[phi].reg = res.index
     /\ IsStackSlot(res) =>
          /\ values'[phi].stack_slot = res.index
          /\ values'[phi].reg = no_reg

\* The passes ran in order: a phi misses an input's register that was empty
\* after the restore only to an earlier phi that took it as its own input's
\* register, and a phi is in a stack slot only if no register is left empty.
PhiPassesInOrder(k) ==
  LET res == phi_result'[blk][k] IN
  /\ (~IsRegister(res) \/ res.index \notin PhiInputRegs(k)) =>
       \A r \in PhiInputRegs(k) :
         Restored.regs[r] = nullnode =>
           \E k2 \in 1 .. (k - 1) :
             phi_result'[blk][k2] = RegisterOperand(r) /\ r \in PhiInputRegs(k2)
  /\ IsStackSlot(res) => \A r \in Regs : register_values'[r] # nullnode

\* No record other than the phis' is evicted, moved or spilled.
PhisLeaveOthersAlone ==
  /\ \A v \in DOMAIN Restored.vals : v \in DOMAIN values' /\ values'[v] = Restored.vals[v]
  /\ \A r \in Regs : Restored.regs[r] # nullnode => register_values'[r] = Restored.regs[r]
  /\ marks' = marks

\* C18: at a merge block's entry, after the merge state is restored, every
\* phi ends with an allocated result and the three passes run in order over
\* all phis: first every phi is offered a register that holds one of its
\* inputs and is empty in the current register file, then each still-unplaced
\* phi takes a free register if one exists, then each still-unplaced phi gets
\* a stack slot; no phi allocation evicts, moves or spills any other record.
C18_PhisPlacedInThreePasses ==
  [][PhiEntry =>
       /\ \A k \in 1 .. CurBlock.phis : PhiPlaced(k) /\ PhiPassesInOrder(k)
       /\ PhisLeaveOthersAlone]_vars

\* Two phis were placed at the entry of their block: the second on the
\* register of one of its inputs, the first on a higher free register that
\* none of its inputs names.
C18_LaterPhiTookItsInputRegister ==
  /\ last.step = "EnterBlock"
  /\ CurBlock.phis >= 2
  /\ pc = "input" /\ idx = 0
  /\ IsRegister(phi_result[blk][1]) /\ IsRegister(phi_result[blk][2])
  /\ phi_result[blk][2].index \in PhiInputRegs(2)
  /\ phi_result[blk][1].index \notin PhiInputRegs(1)
  /\ phi_result[blk][2].index < phi_result[blk][1].index

\* The two-predecessor phi scenario at the merge block's entry: the block's
\* one phi p has the inputs v_a, defined in the predecessor with id 0 and left
\* in R0, and v_b, defined in the predecessor with id 1 and left in R1, and no
\* other value is live.
TwoPredecessorPhiScenario ==
  /\ last.step = "EnterBlock"
  /\ pc = "input" /\ idx = 0
  /\ CurBlock.phis = 1 /\ CurBlock.predecessor_count = 2
  /\ phi_input[blk][1][0] = RegisterOperand(0)
  /\ phi_input[blk][1][1] = RegisterOperand(1)
  /\ \A j \in {0, 1} :
       /\ phi_node[blk][1][j] # nullnode
       /\ graph.blocks[BlockOf(graph, phi_node[blk][1][j])].target = blk
       /\ graph.blocks[BlockOf(graph, phi_node[blk][1][j])].predecessor_id = j
  /\ DOMAIN values = {PhiId(graph, blk, 1)}

\* C19 as stated: in the two-predecessor phi scenario the allocator places p
\* in R0, and the merge block's merge-state entry for R0 is a RegisterMerge
\* whose operands are R0 for the first predecessor and R1 for the second.
C19_PhiRegisterIsRegisterMerge ==
  TwoPredecessorPhiScenario =>
    /\ phi_result[blk][1] = RegisterOperand(0)
    /\ merge_state[blk][0].is_merge
    /\ merge_state[blk][0].operands[0] = RegisterOperand(0)
    /\ merge_state[blk][0].operands[1] = RegisterOperand(1)

\* C19 amended: in the two-predecessor phi scenario the allocator places p in
\* R0; the per-predecessor locations R0 and R1 are the phi's input operands,
\* and the merge block's merge-state entry for R0 holds no record and no
\* RegisterMerge, the inputs having died at the predecessors' jumps.
C19_PhiInRegisterOfFirstInput ==
  TwoPredecessorPhiScenario =>
    /\ phi_result[blk][1] = RegisterOperand(0)
    /\ register_values[0] = PhiId(graph, blk, 1)
    /\ values[PhiId(graph, blk, 1)].reg = 0
    /\ \A i \in Regs :
         /\ merge_state[blk][i].is_initialized
         /\ ~merge_state[blk][i].is_merge
         /\ merge_state[blk][i].node = nullnode

\* The scenario has happened and p is in R0.
C19_ScenarioReached ==
  /\ TwoPredecessorPhiScenario
  /\ phi_result[blk][1] = RegisterOperand(0)

\* AssignTemporaries is handing a node its temporaries.
TemporariesAssigned == last'.step = "AssignTemporaries" /\ last'.v >= 1

\* The registers whose occupants AssignTemporaries evicted.
EvictedForTemporaries == {r \in temporaries' : register_values[r] # nullnode}

\* C20: AssignTemporaries for a node needing k temporaries (1 <= k <= N) hands
\* the node exactly k distinct registers, each empty in the register file
\* afterwards; when fewer than k registers were free, the missing ones are
\* obtained by evicting occupants in order of farthest next-use, each evicted
\* occupant remaining reachable (another register or a stack slot), and the
\* debug assertions inside the eviction loop never fail.
C20_TemporariesAreDistinctEmptyRegisters ==
  [][TemporariesAssigned =>
       /\ Cardinality(temporaries') = last'.v
       /\ \A r \in temporaries' : register_values'[r] = nullnode
       /\ \A r \in EvictedForTemporaries :
            /\ \A j \in Regs \ temporaries' :
                 register_values[j] # nullnode => last'.next_uses[r] >= last'.next_uses[j]
            /\ register_values[r] \in DOMAIN values'
            /\ \/ values'[register_values[r]].stack_slot # nullslot
               \/ \E j \in Regs : register_values'[j] = register_values[r]
       /\ "GetFreeRegisters" \notin failed']_vars

\* An unconditional control node has just merged into a target whose merge
\* state was initialized by an earlier visit.
SubsequentVisit ==
  /\ last'.step = "Merge"
  /\ IsUnconditional(CurBlock.ctrl) /\ ~CurBlock.is_empty
  /\ merge_state[CurBlock.target][0].is_initialized

\* The record the register file brings to the target in register i: the
\* occupant if it is live at the target, and none otherwise.
Incoming(i) ==
  IF IsLiveAtTarget(graph, Alloc, register_values[i], CurId, CurBlock.target)
  THEN register_values[i] ELSE nullnode

\* The entries of the target's merge state that hold no record.
EmptyEntries ==
  {i \in Regs : /\ ~merge_state[CurBlock.target][i].is_merge
                /\ merge_state[CurBlock.target][i].node = nullnode}

\* C21 as stated: on a subsequent visit to merge block T, for a register index
\* whose stored entry holds no record, the entry becomes the incoming record X
\* in the single-node encoding if X is live at T, and stays empty if the
\* incoming record is absent or dead at T.
C21_EmptyEntryTakesIncomingNode ==
  [][SubsequentVisit =>
       \A i \in EmptyEntries :
         merge_state'[CurBlock.target][i] = NodeState(Incoming(i))]_vars

\* C21 amended: on a subsequent visit to merge block T, for a register index
\* whose stored entry holds no record: if the incoming record X is live at T
\* and has a stack slot, the entry becomes a RegisterMerge with canonical
\* record X whose operands are X's stack slot for every other predecessor and
\* the register for this predecessor; if X is live at T and has no stack
\* slot, or the incoming record is absent or dead at T, the entry stays empty.
C21_EmptyEntryMergesSpilledIncoming ==
  [][SubsequentVisit =>
       \A i \in EmptyEntries :
         merge_state'[CurBlock.target][i] =
           IF Incoming(i) # nullnode /\ values[Incoming(i)].stack_slot # nullslot
           THEN [is_initialized |-> TRUE, is_merge |-> TRUE, node |-> Incoming(i),
                 operands |->
                   [j \in 0 .. (graph.blocks[CurBlock.target].predecessor_count - 1) |->
                      IF j = CurBlock.predecessor_id THEN RegisterOperand(i)
                      ELSE StackSlotOperand(values[Incoming(i)].stack_slot)]]
           ELSE merge_state[CurBlock.target][i]]_vars

\* The block merged by the step taken last.
LastMerged == IF pc = "done" THEN blk ELSE blk - 1

\* A subsequent visit has turned an empty entry into a RegisterMerge of the
\* spilled record the predecessor brought in that register.
C21_EmptyEntryBecameRegisterMerge ==
  /\ last.step = "Merge"
  /\ LastMerged \in Blocks
  /\ IsUnconditional(graph.blocks[LastMerged].ctrl)
  /\ \E i \in Regs :
       LET B == graph.blocks[LastMerged]
           e == merge_state[B.target][i]
       IN /\ e.is_merge
          /\ e.node = last.regs[i]
          /\ e.operands[B.predecessor_id] = RegisterOperand(i)
          /\ \A j \in DOMAIN e.operands \ {B.predecessor_id} : IsStackSlot(e.operands[j])

\* The block behind target t of a conditional: the jump's target when t is an
\* empty block.
Through(t) == IF graph.blocks[t].is_empty THEN graph.blocks[t].target ELSE t

\* The targets whose merge state the control node of block b initializes: the
\* not yet visited target of its jump, and for a conditional the targets with
\* a stored state and the not yet visited targets behind an empty block.
FirstVisited(b) ==
  LET B == graph.blocks[b] IN
  IF IsUnconditional(B.ctrl)
  THEN {t \in {B.target} : ~B.is_empty /\ ~merge_state[t][0].is_initialized}
  ELSE IF B.ctrl = "Conditional"
  THEN {Through(t) : t \in {u \in {B.target, B.if_false} :
                              IF graph.blocks[u].is_empty
                              THEN ~merge_state[Through(u)][0].is_initialized
                              ELSE graph.blocks[u].has_state}}
  ELSE {}

\* The record the register file brings to target t in register i.
IncomingAt(i, t) ==
  IF IsLiveAtTarget(graph, Alloc, register_values[i], CurId, t)
  THEN register_values[i] ELSE nullnode

\* C22: on the first visit to a successor T, for every register index i the
\* entry T.merge_state[i] is written in the single-node encoding with the
\* current register file's record at i if that record is live at T, and with
\* no record otherwise; the allocator's register file is not changed by it.
C22_FirstVisitCopiesLiveRecords ==
  [][last'.step = "Merge" =>
       \A t \in FirstVisited(blk) :
         /\ \A i \in Regs :
              merge_state'[t][i] =
                [is_initialized |-> TRUE, is_merge |-> FALSE,
                 node |-> IncomingAt(i, t), operands |-> NoOperands]
         /\ InitializeBranchTargetRegisterValues(graph, Alloc, merge_state[t],
                                                 CurId, t).a = Alloc
         /\ IsUnconditional(CurBlock.ctrl) =>
              register_values' = register_values /\ values' = values]_vars

\* A first visit has written a register's live record into one entry and no
\* record into the entry of a register whose occupant is dead at the target.
C22_FirstVisitDroppedDeadRecord ==
  /\ last.step = "Merge"
  /\ LastMerged \in Blocks
  /\ \E t \in Blocks, i \in Regs, j \in Regs :
       /\ graph.blocks[LastMerged].target = t \/ graph.blocks[LastMerged].if_false = t
       /\ last.regs[i] # nullnode /\ last.regs[j] # nullnode
       /\ ~merge_state[t][i].is_merge /\ merge_state[t][i].node = last.regs[i]
       /\ merge_state[t][j].is_initialized
       /\ ~merge_state[t][j].is_merge /\ merge_state[t][j].node = nullnode

\* ------------------------------------------------------------------- C23
\* A FIXED_REGISTER input whose register already holds the input's record:
\* the one place ForceAllocate is called on a register holding info.
FixedInputAlreadyThere ==
  /\ last'.step = "AssignInput"
  /\ last'.policy = "FIXED_REGISTER"
  /\ register_values[last'.op.index] = last'.v

\* C23: ForceAllocate(R, info), called when the register-file entry of R
\* already refers to info, returns the operand for R, emits no gap move,
\* allocates no stack slot and leaves the register file and all records
\* unchanged; the only move the enclosing AssignInput can then add is its own,
\* from the record's location to R, when the record's reg field names another
\* register.
C23_ForceAllocateOnHolderIsNoOp ==
  [][FixedInputAlreadyThere =>
       LET location == allocation(values[last'.v])
           R == RegisterOperand(last'.op.index)
       IN /\ last'.op = R
          /\ register_values' = register_values
          /\ values' = values
          /\ free_slots' = free_slots
          /\ top_of_stack' = top_of_stack
          /\ marks' = marks
          /\ failed' = failed
          /\ moves' = IF location = R THEN moves
                      ELSE Append(moves, <<location, R>>)]_vars

\* A FIXED_REGISTER input was assigned to the register that held it already.
C23_FixedInputWasAlreadyThere ==
  /\ last.step = "AssignInput"
  /\ last.policy = "FIXED_REGISTER"
  /\ last.regs[last.op.index] = last.v
  /\ register_values[last.op.index] = last.v

\* ------------------------------------------------------------------- C24
\* The entries of the target's merge state that hold a single record which is
\* not the record the register file brings in that register.
SingleEntriesOverridden ==
  {i \in Regs : /\ ~merge_state[CurBlock.target][i].is_merge
                /\ merge_state[CurBlock.target][i].node # nullnode
                /\ merge_state[CurBlock.target][i].node # Incoming(i)}

\* The canonical record of a merge-state entry never changes once set.
CanonicalRecordIsKept ==
  \A t \in Blocks, i \in Regs :
    merge_state[t][i].node # nullnode =>
      merge_state'[t][i].node = merge_state[t][i].node

\* C24: on a subsequent visit to T, a register index i whose stored entry is a
\* single record X while the register file brings a different live record or
\* none is promoted to a RegisterMerge with canonical record X whose operands
\* are register i for every other predecessor and X's current allocation for
\* this predecessor; the canonical record of an entry never changes once set.
C24_SingleEntryPromotedToMerge ==
  [][/\ CanonicalRecordIsKept
     /\ SubsequentVisit =>
          \A i \in SingleEntriesOverridden :
            LET X == merge_state[CurBlock.target][i].node
            IN /\ X \in DOMAIN values
               /\ merge_state'[CurBlock.target][i] =
                    [is_initialized |-> TRUE, is_merge |-> TRUE, node |-> X,
                     operands |->
                       [j \in 0 .. (graph.blocks[CurBlock.target].predecessor_count - 1) |->
                          IF j = CurBlock.predecessor_id THEN allocation(values[X])
                          ELSE RegisterOperand(i)]]]_vars

\* ------------------------------------------------------------------- C25
\* C25: whenever MergeRegisterValues invokes EnsureInRegister for an incoming
\* record, that record is the canonical record of at least one register entry
\* of the target's merge state, so the debug check never fails.
C25_EnsureInRegisterNeverFails == "EnsureInRegister" \notin failed

\* ------------------------------------------------------------------- C26
\* The gap moves the step has appended, in order.
AddedMoves == SubSeq(moves', Len(moves) + 1, Len(moves'))

\* C26: AssignInput inserts the gap move (record's location on entry ->
\* assigned location) exactly once, as the last move before the current node,
\* exactly when the assigned location differs from the location on entry; the
\* only other move it can insert is the one that moves the occupant of a
\* FIXED_REGISTER input's register aside.  So a value that lives in its stack
\* slot only and is used under MUST_HAVE_REGISTER is reloaded from the slot
\* into the newly allocated register before the use.
C26_InputMoveIffLocationDiffers ==
  [][last'.step = "AssignInput" =>
       LET location == allocation(values[last'.v])
           assigned == last'.op
       IN /\ SubSeq(moves', 1, Len(moves)) = moves
          /\ IF location = assigned THEN AddedMoves = <<>>
             ELSE /\ AddedMoves # <<>>
                  /\ AddedMoves[Len(AddedMoves)] = <<location, assigned>>
                  /\ \A k \in 1 .. (Len(AddedMoves) - 1) :
                       /\ last'.policy = "FIXED_REGISTER"
                       /\ AddedMoves[k][1] = assigned
                       /\ AddedMoves[k] # <<location, assigned>>
          /\ (last'.policy = "MUST_HAVE_REGISTER" /\ IsStackSlot(location)) =>
               /\ IsRegister(assigned)
               /\ AddedMoves = << <<location, assigned>> >>
               /\ register_values'[assigned.index] = last'.v
               /\ regC'[assigned.index] = Get(slotC, location.index)]_vars

\* A MUST_HAVE_REGISTER input that a call had spilled and cleared was reloaded
\* from its stack slot into a register.
C26_SpilledInputReloaded ==
  /\ last.step = "AssignInput"
  /\ last.policy = "MUST_HAVE_REGISTER"
  /\ \A i \in Regs : last.regs[i] # last.v
  /\ IsRegister(last.op)
  /\ Len(moves) > 0
  /\ IsStackSlot(moves[Len(moves)][1])
  /\ moves[Len(moves)][2] = last.op

\* ------------------------------------------------------------------- C27
\* The inputs of the current node whose live range ends at it, and the others.
DyingInputs == {v \in InputSet : values[v].last_use = CurId}
SurvivingInputs == InputSet \ DyingInputs

\* C27: when a node consumes the last use of a value, after update-uses no
\* register-file entry refers to the value's record, even if it occupied
\* several registers, and the record is removed from the liveness table; for
\* any other input only the record's next_use changes; a value that appears as
\* several inputs of the node is released once, without error.
C27_LastUseReleasesRecord ==
  [][last'.step = "UpdateUses" =>
       /\ \A v \in DyingInputs :
            /\ v \notin DOMAIN values'
            /\ \A i \in Regs : register_values'[i] # v
       /\ \A v \in SurvivingInputs :
            /\ v \in DOMAIN values'
            /\ [values'[v] EXCEPT !.next_use = values[v].next_use] = values[v]
       /\ \A i \in Regs :
            register_values'[i] = IF register_values[i] \in DyingInputs THEN nullnode
                                  ELSE register_values[i]
       /\ DOMAIN values' = DOMAIN values \ DyingInputs
       /\ \A v \in DOMAIN values' \ InputSet : values'[v] = values[v]
       /\ Len(free_slots') <= Len(free_slots) + Cardinality(DyingInputs)
       /\ failed' = failed]_vars

\* A value that was two inputs of the node and occupied both registers has
\* been released at its last use.
C27_DuplicateInputReleasedOnce ==
  /\ last.step = "UpdateUses"
  /\ Len(inputs) = 2
  /\ inputs[1].node = inputs[2].node
  /\ inputs[1].node \notin DOMAIN values
  /\ \A i \in Regs : last.regs[i] = inputs[1].node /\ register_values[i] = nullnode

\* ------------------------------------------------------------------- C28
\* The inputs of the current node that are no longer in the liveness table.
ReleasedInputs == {v \in InputSet : v \notin DOMAIN values}

\* C28: within one node, the inputs whose last use is the node are released
\* before the node's result is allocated, so a MUST_HAVE_REGISTER result takes
\* the lowest-index register that is empty at that point, including a register
\* just vacated by one of the node's own dying inputs.
C28_ResultReusesDyingInputRegister ==
  [][last'.step = "AllocateNodeResult" =>
       /\ \A v \in InputSet \ ReleasedInputs : values[v].last_use # CurId
       /\ \A i \in Regs : register_values[i] \notin ReleasedInputs
       /\ (last'.policy = "MUST_HAVE_REGISTER" /\ EmptyRegs(Alloc, no_reg) # {}) =>
            /\ last'.op = RegisterOperand(Min(EmptyRegs(Alloc, no_reg)))
            /\ register_values'[Min(EmptyRegs(Alloc, no_reg))] = CurId]_vars

\* The straight-line scenario: v1 in R0 and v2 in R1 are the inputs of v3,
\* v1 dies at v3, and v3's result takes R0.
C28_AddReusesR0 ==
  /\ graph = StraightGraph
  /\ last.step = "AllocateNodeResult"
  /\ last.policy = "MUST_HAVE_REGISTER"
  /\ last.v = 3
  /\ inputs = << [node |-> 1, op |-> RegisterOperand(0)],
                 [node |-> 2, op |-> RegisterOperand(1)] >>
  /\ 1 \notin DOMAIN values
  /\ last.op = RegisterOperand(0)
  /\ register_values[0] = 3

\* ------------------------------------------------------------------- C29
\* The allocator right after the restore at the head of the current block.
RestoredAlloc == InitializeRegisterValues(Alloc, merge_state[blk])

\* The canonical records of the current block's merge state.
CanonicalRecords == {merge_state[blk][i].node : i \in Regs} \ {nullnode}

\* C29: after a block's stored merge state is restored at block entry, for
\* every register index i the register file at i is exactly the canonical
\* record of merge-state entry i, empty when the entry holds none, and every
\* record that was in a register before the restore and is not a canonical
\* record of the state has reg = none.
C29_RestoreInstallsCanonicalRecords ==
  [][(last'.step = "EnterBlock" /\ CurBlock.has_state) =>
       /\ \A i \in Regs : RestoredAlloc.regs[i] = merge_state[blk][i].node
       /\ \A i \in Regs :
            (register_values[i] \in DOMAIN values \ CanonicalRecords) =>
               RestoredAlloc.vals[register_values[i]].reg = no_reg
       /\ \A v \in CanonicalRecords \cap DOMAIN values :
            /\ RestoredAlloc.vals[v].reg # no_reg
            /\ merge_state[blk][RestoredAlloc.vals[v].reg].node = v
       /\ CurBlock.phis = 0 =>
            /\ register_values' = RestoredAlloc.regs
            /\ values' = RestoredAlloc.vals]_vars

\* A block was entered whose restore replaced a register's occupant by the
\* entry's canonical record and left that occupant in the liveness table with
\* reg = none.
C29_RestoreDisplacedRecord ==
  /\ last.step = "EnterBlock"
  /\ CurBlock.has_state /\ CurBlock.phis = 0
  /\ \E i \in Regs :
       /\ last.regs[i] \in DOMAIN values
       /\ values[last.regs[i]].reg = no_reg
       /\ register_values[i] # last.regs[i]
       /\ register_values[i] = merge_state[blk][i].node
       /\ register_values[i] # nullnode

\* ------------------------------------------------------------------- C30
\* The targets of the current conditional that are neither an empty block nor
\* a block with a stored state, and its other targets (the block behind an
\* empty block).
FallthroughTargets ==
  IF CurBlock.ctrl = "Conditional"
  THEN {t \in {CurBlock.target, CurBlock.if_false} :
          ~graph.blocks[t].is_empty /\ ~graph.blocks[t].has_state}
  ELSE {}
OtherTargets(t) == {Through(u) : u \in {CurBlock.target, CurBlock.if_false} \ {t}}

\* C30: a conditional's target that is not an empty block and has no stored
\* state is the next block by id, so the debug assertion never fails; the
\* register state with which it is entered is the register file at the
\* conditional minus exactly the records not live at the target; and clearing
\* them never removes a record live at the conditional's other branch.
C30_FallthroughKeepsLiveRecords ==
  [][last'.step = "Merge" =>
       \A t \in FallthroughTargets :
         /\ CurId + 1 = first_id(graph, t)
         /\ blk' = t
         /\ "InitializeConditionalBranchRegisters" \notin failed'
         /\ \A i \in Regs :
              register_values'[i] = IF IsLiveAtTarget(graph, Alloc, register_values[i], CurId, t)
                                    THEN register_values[i] ELSE nullnode
         /\ \A v \in DOMAIN values :
              values'[v] = IF \E i \in Regs :
                                /\ register_values[i] = v
                                /\ ~IsLiveAtTarget(graph, Alloc, v, CurId, t)
                           THEN [values[v] EXCEPT !.reg = no_reg] ELSE values[v]
         /\ \A u \in OtherTargets(t), i \in Regs :
              IsLiveAtTarget(graph, Alloc, register_values[i], CurId, u) =>
                register_values'[i] = register_values[i]]_vars

\* A conditional has cleared a record that is dead at its fall-through target
\* and kept one that is live there.
C30_DeadRecordClearedAtFallthrough ==
  /\ last.step = "Merge"
  /\ last.policy = "Conditional"
  /\ pc = "block"
  /\ ~CurBlock.is_empty /\ ~CurBlock.has_state
  /\ \E i, j \in Regs :
       /\ last.regs[i] \in DOMAIN values
       /\ register_values[i] = nullnode
       /\ values[last.regs[i]].reg = no_reg
       /\ values[last.regs[i]].last_use < first_id(graph, blk)
       /\ register_values[j] # nullnode
       /\ register_values[j] = last.regs[j]

\* ------------------------------------------------------------------- C31
\* The control node of the current block is unconditional, its target has
\* phis, and the step injects the phi inputs.
InjectsIntoPhis ==
  /\ pc = "inject" /\ pc' = "merge"
  /\ IsUnconditional(CurBlock.ctrl)
  /\ graph.blocks[CurBlock.target].phis > 0

\* The input of phi k of the current block's target on the current edge, once
\* injected.
InjectedNode(k) == phi_node'[CurBlock.target][k][CurBlock.predecessor_id]
InjectedOperand(k) == phi_input'[CurBlock.target][k][CurBlock.predecessor_id]
InjectedNodes == {InjectedNode(k) : k \in 1 .. graph.blocks[CurBlock.target].phis}

\* C31: at an unconditional control node whose target has phis, every phi's
\* input operand for this predecessor is set to the location the input
\* value's record holds at that moment, for all phis before update-use runs
\* for any of them; so two phis sharing an input whose last use is this
\* control node both receive its location, and the value is released once.
C31_PhiInputsInjectedBeforeRelease ==
  [][InjectsIntoPhis =>
       /\ \A k \in 1 .. graph.blocks[CurBlock.target].phis :
            /\ InjectedNode(k) \in DOMAIN values
            /\ InjectedOperand(k) = allocation(values[InjectedNode(k)])
       /\ \A v \in InjectedNodes :
            IF values[v].last_use = CurId
            THEN v \notin DOMAIN values' /\ \A i \in Regs : register_values'[i] # v
            ELSE v \in DOMAIN values'
       /\ Len(free_slots') <=
            Len(free_slots) + Cardinality({v \in InjectedNodes : values[v].last_use = CurId})
       /\ failed' = failed]_vars

\* Two phis of the merge block share an input whose last use was the jump;
\* both got its register and the value is gone from the liveness table.
C31_SharedDyingInputInjectedTwice ==
  /\ pc = "merge"
  /\ IsUnconditional(CurBlock.ctrl)
  /\ graph.blocks[CurBlock.target].phis = 2
  /\ LET t == CurBlock.target
         pid == CurBlock.predecessor_id
     IN /\ phi_node[t][1][pid] = phi_node[t][2][pid]
        /\ phi_node[t][1][pid] \notin DOMAIN values
        /\ phi_node[t][1][pid] # nullnode
        /\ IsRegister(phi_input[t][1][pid])
        /\ phi_input[t][2][pid] = phi_input[t][1][pid]
        /\ last.regs[phi_input[t][1][pid].index] = phi_node[t][1][pid]

\* ------------------------------------------------------------------- C32
\* Spill applied to the record of v in the current allocator state.
SpillNow(v) == Spill(Alloc, v)

\* What Spill does to a record without a slot: the head of the free-list, or
\* a new slot at the old top_of_stack; the node is marked spilled there.
SpillTakesNextSlot(v) ==
  LET s == IF free_slots # <<>> THEN Head(free_slots) ELSE top_of_stack
  IN /\ SpillNow(v).vals = [values EXCEPT ![v].stack_slot = s]
     /\ SpillNow(v).free = IF free_slots # <<>> THEN Tail(free_slots) ELSE free_slots
     /\ SpillNow(v).top = IF free_slots # <<>> THEN top_of_stack ELSE top_of_stack + 1
     /\ SpillNow(v).marks = marks \cup {<<v, s>>}
     /\ SpillNow(v).regs = register_values
     /\ SpillNow(v).failed = failed

\* C32: Spill(info) is idempotent and a record's stack slot is stable: if the
\* record already has a slot, Spill changes nothing; otherwise the record gets
\* the head of the free-list if it is non-empty, else a new slot with index the
\* old top_of_stack (then incremented), and the defining node is marked
\* spilled at that slot.  Once set, a record's stack slot never changes until
\* the record is destroyed.
C32_SpillIsIdempotentAndSlotStable ==
  [][/\ \A v \in DOMAIN values :
          /\ IF values[v].stack_slot # nullslot THEN SpillNow(v) = Alloc
             ELSE SpillTakesNextSlot(v)
          /\ Spill(SpillNow(v), v) = SpillNow(v)
     /\ \A v \in DOMAIN values \cap DOMAIN values' :
          values[v].stack_slot # nullslot =>
            values'[v].stack_slot = values[v].stack_slot]_vars

\* A spill step has left a record that sat in a register with a slot that an
\* erased record owned before it (a slot taken from the free-list), while
\* another record has a slot too.
C32_SpilledFromFreeListAndKept ==
  /\ last.step \in {"SpillRegisters", "SpillAndClearRegisters"}
  /\ \E v \in DOMAIN values, w \in DOMAIN values :
       /\ v # w
       /\ values[v].stack_slot # nullslot
       /\ values[w].stack_slot # nullslot
       /\ \E i \in Regs : last.regs[i] = v
       /\ <<v, values[v].stack_slot>> \in marks
       /\ \E u \in 1 .. MaxId(graph) :
            u \notin DOMAIN values /\ u # v /\ <<u, values[v].stack_slot>> \in marks

\* ------------------------------------------------------------------- C33
\* C33 as stated: whenever Free(R) is called on a register whose occupant's
\* reg field is not R, that reg field names a register whose register-file
\* entry refers to the occupant: the debug assertion never fails.
C33_FreeAssertionNeverFails == "Free" \notin failed

\* ------------------------------------------------------------------- C34
\* Free on a register file of three registers, where an occupant that has to
\* be moved can have two empty registers to go to.
FreeRegisterCount == 3
FreeValues == 2
FreeRegs == 0 .. (FreeRegisterCount - 1)

\* The register files Free can be called on: each record's reg field names a
\* register that holds it, a record no register holds lives in its stack slot.
FreeInit ==
  /\ graph = StraightGraph
  /\ blk = 1 /\ idx = 0 /\ pc = "free"
  /\ register_values \in [FreeRegs -> {nullnode} \cup (1 .. FreeValues)]
  /\ \E spilled \in SUBSET (1 .. FreeValues) :
       /\ \A v \in 1 .. FreeValues :
            (\A i \in FreeRegs : register_values[i] # v) => v \in spilled
       /\ values \in [1 .. FreeValues ->
                        [last_use : {StraightLen + 1}, next_use : {StraightLen + 1},
                         stack_slot : {nullslot} \cup (0 .. (FreeValues - 1)),
                         reg : {no_reg} \cup FreeRegs]]
       /\ \A v \in 1 .. FreeValues :
            /\ values[v].stack_slot = (IF v \in spilled THEN v - 1 ELSE nullslot)
            /\ IF \E i \in FreeRegs : register_values[i] = v
               THEN values[v].reg \in FreeRegs /\ register_values[values[v].reg] = v
               ELSE values[v].reg = no_reg
       /\ marks = {<<v, v - 1>> : v \in spilled}
       /\ slotC = [x \in {v - 1 : v \in spilled} |-> x + 1]
       /\ slotW = [x \in {v - 1 : v \in spilled} |-> x + 1]
  /\ free_slots = <<>>
  /\ top_of_stack = FreeValues
  /\ moves = <<>>
  /\ regC = register_values
  /\ failed = {}
  /\ merges = <<>>
  /\ inputs = <<>>
  /\ temporaries = {}
  /\ props = "none"
  /\ result = InvalidOperand
  /\ merge_state = [b \in 1 .. Len(graph.blocks) |-> [i \in FreeRegs |-> UninitializedState]]
  /\ phi_input = [b \in 1 .. Len(graph.blocks) |-> <<>>]
  /\ phi_node = [b \in 1 .. Len(graph.blocks) |-> <<>>]
  /\ phi_result = [b \in 1 .. Len(graph.blocks) |-> <<>>]
  /\ slot_results = {}
  /\ snap = [b \in 1 .. Len(graph.blocks) |-> [i \in FreeRegs |-> nullnode]]
  /\ stack_slots = -1
  /\ next_post_dominating_hole = [b \in 1 .. Len(graph.blocks) |-> 0]
  /\ delivered = [b \in 1 .. Len(graph.blocks) |->
                    [regs |-> [i \in FreeRegs |-> nullnode], live |-> {}]]
  /\ deopt_spilled = {}
  /\ last = [step |-> "Init", v |-> nullnode, op |-> InvalidOperand, policy |-> "",
             regs |-> register_values, next_uses |-> [i \in FreeRegs |-> 0]]

\* One call Free(reg, try_move); the step's policy field records try_move.
FreeStep ==
  /\ pc = "free"
  /\ \E reg \in FreeRegs, try_move \in BOOLEAN :
       /\ Commit(Free(Alloc, reg, try_move))
       /\ last' = [step |-> "Free", v |-> register_values[reg],
                   op |-> RegisterOperand(reg),
                   policy |-> IF try_move THEN "try_move" ELSE "",
                   regs |-> register_values, next_uses |-> [i \in FreeRegs |-> 0]]
  /\ pc' = "freed"
  /\ UNCHANGED <<graph, blk, idx, inputs, temporaries, props, result, merge_state,
                 phi_input, phi_node, phi_result, slot_results, snap, stack_slots,
                 next_post_dominating_hole, delivered, deopt_spilled>>

FreeSpec == FreeInit /\ [][FreeStep]_vars

\* Free(R, try_move = true) has just run on an unspilled occupant whose reg
\* field was R, which no other register held, with an empty register to go to.
FreeRelocates ==
  /\ pc = "free" /\ pc' = "freed"
  /\ last'.policy = "try_move"
  /\ last'.v # nullnode
  /\ values[last'.v].reg = last'.op.index
  /\ values[last'.v].stack_slot = nullslot
  /\ \A i \in FreeRegs : i # last'.op.index => register_values[i] # last'.v
  /\ \E i \in FreeRegs : i # last'.op.index /\ register_values[i] = nullnode

\* The lowest-index empty register other than the one freed.
LowestEmptyOther ==
  CHOOSE i \in FreeRegs :
    /\ i # last'.op.index /\ register_values[i] = nullnode
    /\ \A j \in FreeRegs :
         (j # last'.op.index /\ register_values[j] = nullnode) => i <= j

\* C34 as stated: when Free(R, try_move = true) relocates an unspilled
\* occupant to a free register, it goes to the lowest-index empty register
\* other than R, with a register-to-register gap move from R to it before the
\* current node.
C34_FreeMovesToLowestEmptyRegister ==
  [][FreeRelocates =>
       /\ values'[last'.v].reg = LowestEmptyOther
       /\ register_values'[LowestEmptyOther] = last'.v
       /\ <<RegisterOperand(last'.op.index), RegisterOperand(LowestEmptyOther)>>
            \in NewMoves]_vars

\* ------------------------------------------------------------------- C35
\* The control flow graphs of HoleBlocks blocks in linear order: a Jump and
\* both targets of a conditional go to later blocks, a JumpLoop goes back to
\* its own block or an earlier one, the last block does not run off the end,
\* and every block but the first is the target of an earlier block.
HoleBlocks == 5

HoleControls(b) ==
  {[ctrl |-> "Return", target |-> 0, if_false |-> 0]}
    \cup {[ctrl |-> "JumpLoop", target |-> t, if_false |-> 0] : t \in 1 .. b}
    \cup {[ctrl |-> "Jump", target |-> t, if_false |-> 0] : t \in (b + 1) .. HoleBlocks}
    \cup {[ctrl |-> "Conditional", target |-> p[1], if_false |-> p[2]] :
            p \in {q \in ((b + 1) .. HoleBlocks) \X ((b + 1) .. HoleBlocks) : q[1] # q[2]}}

RECURSIVE HoleControlSeqs(_)
HoleControlSeqs(b) ==
  IF b > HoleBlocks THEN {<<>>}
  ELSE {<<c>> \o s : c \in HoleControls(b), s \in HoleControlSeqs(b + 1)}

HoleGraph(cs) ==
  [name |-> "holes",
   blocks |-> [b \in 1 .. Len(cs) |->
                 Block(0, 0, cs[b].ctrl, cs[b].target, cs[b].if_false, 0, FALSE, FALSE, 0)],
   dom |-> {}, temps |-> 0, props |-> {}]

HoleGraphs ==
  {HoleGraph(cs) : cs \in {s \in HoleControlSeqs(1) :
     \A b \in 2 .. HoleBlocks :
       \E P \in 1 .. (b - 1) :
         \/ s[P].ctrl = "Jump" /\ s[P].target = b
         \/ s[P].ctrl = "Conditional" /\ b \in {s[P].target, s[P].if_false}}}

\* The constructor's first pass on each of these graphs.
HoleInit == graph \in HoleGraphs /\ Constructed
HoleSpec == HoleInit /\ [][ComputePostDominatingHolesStep]_vars

\* A hole: a Jump that is not a fallthrough, a Return or a JumpLoop.
IsHole(g, b) ==
  \/ g.blocks[b].ctrl \in {"Return", "JumpLoop"}
  \/ g.blocks[b].ctrl = "Jump" /\ ~IsTargetOfNodeFallthrough(g, b, g.blocks[b].target)

RECURSIVE HoleWalkSteps(_, _, _, _, _)
\* The iterations of the conditional's while loop that advance first, counted
\* with fuel: -1 if the loop reads a null node or is still running when the
\* fuel is used up.
HoleWalkSteps(g, hole, first, second, fuel) ==
  IF first = 0 \/ second = 0 \/ fuel = 0 THEN -1
  ELSE IF first = second THEN 0
  ELSE LET swap == control_id(g, first) > control_id(g, second)
           f == IF swap THEN second ELSE first
           s == IF swap THEN first ELSE second
       IN IF g.blocks[f].ctrl \in {"Return", "JumpLoop"} THEN 0
          ELSE LET n == HoleWalkSteps(g, hole, hole[f], s, fuel - 1)
               IN IF n = -1 THEN -1 ELSE n + 1

\* The loop's iterations for the conditional of block b, on the finished map
\* (the pass runs from the last block down, so the entries the loop reads
\* are final when it reads them).
ConditionalWalkSteps(b) ==
  HoleWalkSteps(graph, next_post_dominating_hole,
    NearestPostDominatingHole(graph, next_post_dominating_hole, graph.blocks[b].target),
    NearestPostDominatingHole(graph, next_post_dominating_hole, graph.blocks[b].if_false),
    Len(graph.blocks) + 1)

RECURSIVE HoleChainEnds(_, _)
\* Following next_post_dominating_hole from block b's control node reaches a
\* Return or a JumpLoop within fuel steps.
HoleChainEnds(b, fuel) ==
  IF b = 0 \/ fuel = 0 THEN FALSE
  ELSE IF graph.blocks[b].ctrl \in {"Return", "JumpLoop"} THEN TRUE
  ELSE HoleChainEnds(next_post_dominating_hole[b], fuel - 1)

\* C35: on every graph in linear order the hole pass terminates (the
\* conditional's chain-walking loop exits within as many iterations as there
\* are blocks), and afterwards every Jump and every conditional has a
\* next_post_dominating_hole that is set, has a strictly greater id and is a
\* non-fallthrough Jump, a Return or a JumpLoop; following
\* next_post_dominating_hole from it ends at a Return or JumpLoop.
C35_HolesAreSetForwardAndEnd ==
  pc # "holes" =>
    \A b \in Blocks :
      graph.blocks[b].ctrl \in {"Jump", "Conditional"} =>
        /\ next_post_dominating_hole[b] # 0
        /\ control_id(graph, next_post_dominating_hole[b]) > control_id(graph, b)
        /\ IsHole(graph, next_post_dominating_hole[b])
        /\ HoleChainEnds(b, Len(graph.blocks))
        /\ graph.blocks[b].ctrl = "Conditional" => ConditionalWalkSteps(b) >= 0

\* The pass has run on a graph with a conditional whose loop advanced twice,
\* crossing from one branch's chain to the other's, before it broke off.
C35_LoopAdvancedTwice ==
  /\ pc # "holes"
  /\ \E b \in Blocks :
       /\ graph.blocks[b].ctrl = "Conditional"
       /\ ConditionalWalkSteps(b) >= 2
       /\ next_post_dominating_hole[b] # 0

\* ------------------------------------------------------------------- C36
\* B1: one node more than the straight-line graph; Return.  Long enough for
\* a slot to be freed and taken again while an older value is still live.
ReuseGraph ==
  [name |-> "reuse",
   blocks |-> << Block(StraightLen + 1, 0, "Return", 0, 0, 0, FALSE, FALSE, 0) >>,
   dom |-> { <<1, 1>> },
   temps |-> MaxTemporaries, props |-> {"call"}]

\* The allocation of that graph, of the straight-line graph and of the graph
\* with an empty block.
ReuseInit ==
  graph \in {ReuseGraph, StraightGraph, EmptyBlockGraph(MaxPhis)} /\ Constructed
ReuseSpec == ReuseInit /\ [][Next]_vars

\* C36 as stated, for two values marked spilled with the same local stack
\* slot of which the one defined first is still in the liveness table: their
\* ranges [defining node id, last-use id] are disjoint, that is, the first
\* value's last use comes before the second value's definition.
C36_SharedSlotRangesDisjoint ==
  \A p \in marks, q \in marks :
    (p[1] < q[1] /\ p[2] = q[2] /\ p[2] >= 0 /\ p[1] \in DOMAIN values)
      => values[p[1]].last_use < q[1]

\* ------------------------------------------------------------------- C37
\* B1: two nodes, cond -> B2 (fallthrough) / B3; B2: one node, Jump -> B4;
\* B3: Jump -> B4; B4: one node, Return.  Two values can be live across the
\* merge and B2 can leave them in other places than B3 does.
SwapGraph ==
  [name |-> "swap",
   blocks |-> << Block(BlockLen + 1, 0, "Conditional", 2, 3, 0, FALSE, FALSE, 0),
                 Block(BlockLen, 0, "Jump", 4, 0, 0, FALSE, FALSE, 0),
                 Block(0, 0, "Jump", 4, 0, 1, FALSE, TRUE, 1),
                 Block(BlockLen, 0, "Return", 0, 0, 0, FALSE, TRUE, 2) >>,
   dom |-> { <<1, 1>>, <<1, 2>>, <<1, 3>>, <<1, 4>>, <<2, 2>>, <<3, 3>>, <<4, 4>> },
   temps |-> 0, props |-> {}]

\* The allocation of that graph and of the straight-line graph.
SwapInit == graph \in {SwapGraph, StraightGraph} /\ Constructed
SwapSpec == SwapInit /\ [][Next]_vars

\* The machine after the register-merge moves emitted at the end of P on its
\* edge to b.
AfterRegisterMergeMoves(P, b) ==
  RegisterMergeMoves(merge_state[b], graph.blocks[P].predecessor_id, EndOfBlock(P), 0)

\* The move into register i on the edge from P to b reads a register that an
\* earlier move of the sequence loaded from somewhere else.
ReadsOverwrittenRegister(P, b, i) ==
  LET pid == graph.blocks[P].predecessor_id
      op == merge_state[b][i].operands[pid]
  IN /\ IsRegister(op)
     /\ op.index < i
     /\ merge_state[b][op.index].is_merge
     /\ merge_state[b][op.index].operands[pid] # op

\* C37 as stated, for the entries whose operand for P holds the canonical
\* value at the end of P: for every predecessor P of a merge block, after the
\* register-merge moves emitted at P's unconditional control node (one per
\* RegisterMerge entry, in increasing register order) every register with a
\* RegisterMerge entry holds the entry's canonical value, and no move reads
\* a register that an earlier move of the sequence has overwritten.
C37_MergeMovesDeliverCanonicalValues ==
  pc = "done" =>
    \A e \in MergeEdges : \A i \in Regs :
      LET entry == merge_state[e[2]][i]
      IN (/\ entry.is_merge
          /\ Content(EndOfBlock(e[1]), entry.operands[graph.blocks[e[1]].predecessor_id])
               = entry.node)
           => /\ AfterRegisterMergeMoves(e[1], e[2]).regC[i] = entry.node
              /\ ~ReadsOverwrittenRegister(e[1], e[2], i)

\* ------------------------------------------------------------------- C38
\* C38: at every allocator step no two distinct records of the liveness table
\* own the same stack slot, no slot on the free-list is owned by a record of
\* the liveness table, and no slot is on the free-list twice.
C38_SlotsHaveOneOwner ==
  /\ \A v \in DOMAIN values, w \in DOMAIN values :
       (v # w /\ values[v].stack_slot # nullslot)
         => values[v].stack_slot # values[w].stack_slot
  /\ \A v \in DOMAIN values : values[v].stack_slot \notin FreeSlotSet(free_slots)
  /\ Cardinality(FreeSlotSet(free_slots)) = Len(free_slots)

\* Two records own stack slots, one of them a slot that an earlier value was
\* marked with and gave back to the free-list.
C38_ReusedSlotBesideAnother ==
  \E w \in DOMAIN values, x \in DOMAIN values :
    /\ w # x
    /\ values[w].stack_slot # nullslot
    /\ values[x].stack_slot # nullslot
    /\ \E p \in marks : p[2] = values[w].stack_slot /\ p[1] # w

\* ------------------------------------------------------------------- C39
\* The value nodes marked spilled, and those whose result operand is a stack
\* slot.
MarkedSpilled == {p[1] : p \in marks}
SlotResultNodes == {q[1] : q \in slot_results}

\* C39: a value node that the allocator marks as spilled never has a
\* stack-slot result operand: a value whose result is placed in a stack slot
\* owns that slot from then on, so spilling it later marks nothing and the
\* code emitter's assertion on spilled nodes never fails.
C39_SpilledNodeResultIsNoSlot ==
  /\ MarkedSpilled \cap SlotResultNodes = {}
  /\ \A q \in slot_results :
       q[1] \in DOMAIN values => values[q[1]].stack_slot = q[2]

\* A call has just spilled the registers while one of them held a value whose
\* result is a stack slot, beside one that it marked spilled.
C39_SlotResultWentThroughSpill ==
  /\ last.step \in {"SpillAndClearRegisters", "SpillRegisters"}
  /\ \E i \in Regs : last.regs[i] \in SlotResultNodes
  /\ \E i \in Regs : last.regs[i] \in MarkedSpilled

\* ------------------------------------------------------------------- C40
\* C40: a block's merge state is initialized all-or-nothing: at every
\* allocator step either all its entries carry the initialized flag or none
\* does, and InitializeBranchTargetRegisterValues is only ever called on a
\* target whose entries are not initialized (its debug check never fails),
\* from MergeRegisterValues and for a conditional's non-empty branch target
\* that has state.
C40_MergeStateAllOrNothing ==
  /\ \A b \in Blocks : \A i \in Regs, j \in Regs :
       merge_state[b][i].is_initialized = merge_state[b][j].is_initialized
  /\ "InitializeBranchTargetRegisterValues" \notin failed

\* A conditional's non-empty branch target with state has been initialized,
\* a merge block has been visited a second time, which left a RegisterMerge
\* entry beside a single-node entry, and another block's state is still
\* uninitialized.
C40_InitializedBothWays ==
  /\ \E b \in Blocks :
       /\ graph.blocks[b].has_state
       /\ ~graph.blocks[b].is_empty
       /\ \E P \in Blocks :
            graph.blocks[P].ctrl = "Conditional" /\ b \in {graph.blocks[P].target,
                                                         graph.blocks[P].if_false}
       /\ \A i \in Regs : merge_state[b][i].is_initialized
  /\ \E b \in Blocks :
       /\ TimesMerged(merges, b, 0) + TimesMerged(merges, b, 1) >= 2
       /\ \E i \in Regs, j \in Regs :
            /\ merge_state[b][i].is_merge
            /\ merge_state[b][j].is_initialized /\ ~merge_state[b][j].is_merge
  /\ \E b \in Blocks : \A i \in Regs : ~merge_state[b][i].is_initialized

====
